---- MODULE Spec2Model ----
(***************************************************************************)
(* Card Rush UNO: the authoritative game engine (UnoGame, state.ts), the   *)
(* deck factory and rules predicate (cards.ts) and the part of RoomService *)
(* that drives the engine (start, the four turn operations, the turn timer *)
(* and the end-of-game cleanup).                                           *)
(*                                                                         *)
(* The engine is a record `game` threaded through operators that mirror    *)
(* the methods of UnoGame one by one.  An operator that can throw returns  *)
(* a record with the error message and the engine as it is at the throw.   *)
(* Math.random is an input: every handler draws one seed rnd, and the i-th *)
(* swap of a shuffle made while that handler runs reads the sample         *)
(* ((rnd + i) % RandDenom) / RandDenom.                                    *)
(***************************************************************************)
EXTENDS Integers, Sequences, FiniteSets, TLC

VARIABLES room, game, turnTimer, steps

vars == <<room, game, turnTimer, steps>>

(***************************************************************************)
(* Bounds of the model.  The program deals 7 cards from a 108-card deck to *)
(* 2..6 players; the model keeps the construction of the deck and scales   *)
(* the numbers down so that exhaustion, replenishment, wins, forced power  *)
(* draws and frozen turns all happen within MaxSteps operations.           *)
(***************************************************************************)
MaxPlayers == 3

InitialHandSize == 3

ActionCopies == 1

WildCopies == 1

PowerCopies == 1

RandDenom == 4

MaxSteps == 8

\* the lobby specification: handler runs that change the engine, and player ids issued
LobbyMaxSteps == 3

MaxCreated == 4

(***************************************************************************)
(* Program constants.                                                      *)
(***************************************************************************)
DEFAULT_DRAW_COUNT == 1

FREEZE_TURNS == 2

powerCardCost == 4

MIN_PLAYERS_TO_START == 2

Null == "null"

Undefined == "undefined"

NoSkip == 0

NoCard == 0

CARD_COLORS == <<"red", "blue">>

NUMBER_CARD_VALUES == <<"0">>

ACTION_CARD_VALUES == <<"skip", "reverse", "draw2", "wild", "wild4">>

POWER_CARD_TYPES == <<"cardRush", "freeze", "colorRush", "swapHands">>

\* a variant of ACTION_CARD_POINTS that the statement of the points (C10) must
\* tell from it: a wild is worth what a skip is worth
ACTION_CARD_POINTS_FlatWild(value) ==
  CASE value = "skip" -> 1
    [] value = "reverse" -> 1
    [] value = "draw2" -> 2
    [] value = "wild" -> 1
    [] value = "wild4" -> 3
    [] OTHER -> 0

ACTION_CARD_POINTS(value) ==
  CASE value = "skip" -> 1
    [] value = "reverse" -> 1
    [] value = "draw2" -> 2
    [] value = "wild" -> 2
    [] value = "wild4" -> 3
    [] OTHER -> 0

PlayerIdOfSeat == <<"p1", "p2", "p3", "p4", "p5", "p6">>

\* the display names of the players of a room, in the order they took their seats
NameOfSeat == <<"ann", "bob", "cy", "dee", "eve", "fay">>

UnknownPlayer == "ghost"

Range(s) == {s[i] : i \in 1..Len(s)}

RECURSIVE Repeat(_, _)
Repeat(s, n) == IF n <= 0 THEN <<>> ELSE s \o Repeat(s, n - 1)

(***************************************************************************)
(* cards.ts                                                                *)
(***************************************************************************)
RECURSIVE fisherYates(_, _, _)
fisherYates(arr, i, rnd) ==
  IF i <= 0 THEN arr
  ELSE LET j == (((rnd + i) % RandDenom) * (i + 1)) \div RandDenom
       IN fisherYates([arr EXCEPT ![i + 1] = arr[j + 1], ![j + 1] = arr[i + 1]], i - 1, rnd)

shuffle(items, rnd) == fisherYates(items, Len(items) - 1, rnd)

\* the (color, value) pairs in the order buildDeck pushes them; ids are added below
RECURSIVE colorCards(_)
colorCards(colors) ==
  IF colors = <<>> THEN <<>>
  ELSE LET color == Head(colors)
           zero == <<[color |-> color, value |-> "0"]>>
           numbers == Repeat([i \in 1..(Len(NUMBER_CARD_VALUES) - 1) |->
                                [color |-> color, value |-> NUMBER_CARD_VALUES[i + 1]]], ActionCopies)
           actions == Repeat(<<[color |-> color, value |-> "skip"],
                               [color |-> color, value |-> "reverse"],
                               [color |-> color, value |-> "draw2"]>>, ActionCopies)
       IN zero \o numbers \o actions \o colorCards(Tail(colors))

unshuffledDeck ==
  LET faces == colorCards(CARD_COLORS)
               \o Repeat(<<[color |-> "wild", value |-> "wild"],
                           [color |-> "wild", value |-> "wild4"]>>, WildCopies)
  IN [i \in 1..Len(faces) |-> [id |-> i, color |-> faces[i].color, value |-> faces[i].value]]

buildDeck(rnd) == shuffle(unshuffledDeck, rnd)

buildPowerDeck(rnd) == shuffle(Repeat(POWER_CARD_TYPES, PowerCopies), rnd)

canPlayCard(card, topCard, currentColor, drawStack) ==
  IF card.color = "wild" THEN TRUE
  ELSE IF drawStack > 0 THEN card.value = "draw2" \/ card.value = "wild4"
  ELSE card.color = currentColor \/ card.value = topCard.value

DeckSize == Len(unshuffledDeck)

CardIds == 1..DeckSize

(***************************************************************************)
(* state.ts: the engine record and its private helpers                     *)
(***************************************************************************)
NewPlayer(id) ==
  [id |-> id, hand |-> <<>>, hasCalledUno |-> FALSE, powerCards |-> <<>>,
   powerPoints |-> 0, hasPlayedPowerCardThisTurn |-> FALSE,
   isAwaitingPowerDraw |-> FALSE, pendingSkipCount |-> NoSkip, frozenForTurns |-> 0]

NewGame(ids) ==
  [players |-> [i \in 1..Len(ids) |-> NewPlayer(ids[i])],
   deck |-> <<>>, discardPile |-> <<>>, powerDeck |-> <<>>,
   currentPlayerIndex |-> 0, direction |-> 1, drawStack |-> 0,
   currentColor |-> "red", hasStarted |-> FALSE, winnerId |-> Null,
   pendingPowerDrawPlayerId |-> Null, pendingHandSyncs |-> {}]

\* the seat (1-based) of the current player: players[currentPlayerIndex]
Cur(g) == g.currentPlayerIndex + 1

getCurrentPlayer(g) == g.players[Cur(g)]

\* players.find(p => p.id === playerId): the seat, or 0 when there is none
SeatOf(g, playerId) ==
  IF \E i \in 1..Len(g.players) : g.players[i].id = playerId
  THEN CHOOSE i \in 1..Len(g.players) :
         /\ g.players[i].id = playerId
         /\ \A k \in 1..(i - 1) : g.players[k].id # playerId
  ELSE 0

getTopCard(g) == g.discardPile[Len(g.discardPile)]

markHandDirty(g, seat) ==
  [g EXCEPT !.pendingHandSyncs = @ \cup {g.players[seat].id}]

\* a variant of ensureDeckSize that card conservation (C1) must tell from it: the
\* discard pile is shuffled into the draw pile and left where it was
ensureDeckSize_KeepingDiscard(g, rnd) ==
  IF Len(g.deck) = 0
  THEN IF Len(g.discardPile) = 0 THEN g
       ELSE [g EXCEPT !.deck = shuffle(SubSeq(g.discardPile, 1, Len(g.discardPile) - 1), rnd)]
  ELSE g

\* a variant of ensureDeckSize that deck replenishment (C21) must tell from it: the
\* discard pile keeps its bottom card and the top goes into the draw pile
ensureDeckSize_KeepingBottom(g, rnd) ==
  IF Len(g.deck) = 0
  THEN IF Len(g.discardPile) = 0 THEN g
       ELSE [g EXCEPT !.deck = shuffle(Tail(g.discardPile), rnd),
                      !.discardPile = <<Head(g.discardPile)>>]
  ELSE g

ensureDeckSize(g, rnd) ==
  IF Len(g.deck) = 0
  THEN IF Len(g.discardPile) = 0 THEN g
       ELSE [g EXCEPT !.deck = shuffle(SubSeq(g.discardPile, 1, Len(g.discardPile) - 1), rnd),
                      !.discardPile = <<g.discardPile[Len(g.discardPile)]>>]
  ELSE g

\* takeCards: [g |-> the engine afterwards, cards |-> the cards taken]
RECURSIVE takeLoop(_, _, _, _)
takeLoop(g, count, cards, rnd) ==
  IF count <= 0 THEN [g |-> g, cards |-> cards]
  ELSE LET g1 == ensureDeckSize(g, rnd)
       IN IF Len(g1.deck) = 0 THEN [g |-> g1, cards |-> cards]
          ELSE takeLoop([g1 EXCEPT !.deck = Tail(@)], count - 1,
                        Append(cards, Head(g1.deck)), rnd)

\* a variant of takeCards that the count of a draw (C11) must tell from it: one card
\* fewer is taken than was asked for
takeCards_OneShort(g, count, rnd) == takeLoop(g, count - 1, <<>>, rnd)

takeCards(g, count, rnd) == takeLoop(g, count, <<>>, rnd)

ensurePowerDeckSize(g, rnd) ==
  IF Len(g.powerDeck) = 0 THEN [g EXCEPT !.powerDeck = buildPowerDeck(rnd)] ELSE g

\* a variant of getRequiredPowerDraws that the power-meter accounting (C13) must
\* tell from it: a draw is already owed one point short of the cost
getRequiredPowerDraws_OnePointEarly(player) ==
  IF player.powerPoints <= 0 THEN 0 ELSE (player.powerPoints + 1) \div powerCardCost

getRequiredPowerDraws(player) ==
  IF player.powerPoints <= 0 THEN 0 ELSE player.powerPoints \div powerCardCost

\* a variant of moveSteps that the cursor rule (C9) must tell from it: the cursor
\* moves towards higher seats whatever the direction
moveSteps_IgnoringDirection(g, stepCount) ==
  IF Len(g.players) = 0 THEN g
  ELSE [g EXCEPT !.currentPlayerIndex = (@ + stepCount) % Len(g.players)]

moveSteps(g, stepCount) ==
  IF Len(g.players) = 0 THEN g
  ELSE LET totalPlayers == Len(g.players)
           normalized == ((stepCount % totalPlayers) + totalPlayers) % totalPlayers
           offset == (normalized * g.direction + totalPlayers) % totalPlayers
       IN [g EXCEPT !.currentPlayerIndex = (@ + offset + totalPlayers) % totalPlayers]

\* a variant of prepareCurrentPlayerForTurn that the hasCalledUno flag (C20) must
\* tell from it: the flag of the player entering the turn is kept
prepareCurrentPlayerForTurn_UnoKept(g) ==
  [g EXCEPT !.players[Cur(g)].hasPlayedPowerCardThisTurn = FALSE]

\* a variant of prepareCurrentPlayerForTurn that the one power card per turn (C19)
\* must tell from it: the flag of the player entering the turn is kept
prepareCurrentPlayerForTurn_FlagKept(g) ==
  [g EXCEPT !.players[Cur(g)].hasCalledUno = FALSE]

prepareCurrentPlayerForTurn(g) ==
  [g EXCEPT !.players[Cur(g)].hasCalledUno = FALSE,
            !.players[Cur(g)].hasPlayedPowerCardThisTurn = FALSE]

\* a variant of frozenPenalty that the frozen entries (C14) must tell from it: the
\* frozen player is passed over without paying the draw stack
frozenPenalty_StackKept(g, seat, rnd) == g

\* one frozen entry paying the draw stack (the body of the if at 504-512)
frozenPenalty(g, seat, rnd) ==
  IF g.drawStack > 0
  THEN LET t == takeCards(g, g.drawStack, rnd)
           g1 == IF Len(t.cards) > 0
                 THEN markHandDirty([t.g EXCEPT !.players[seat].hand = @ \o t.cards], seat)
                 ELSE t.g
       IN [g1 EXCEPT !.players[seat].hasCalledUno = FALSE, !.drawStack = 0]
  ELSE g

\* resolveFrozenPlayers: [g |-> engine, threw |-> the 4N guard was hit]
RECURSIVE resolveLoop(_, _, _)
resolveLoop(g, safety, rnd) ==
  IF Len(g.players) = 0 THEN [g |-> g, threw |-> FALSE]
  ELSE LET seat == Cur(g)
       IN IF g.players[seat].frozenForTurns <= 0 THEN [g |-> g, threw |-> FALSE]
          ELSE LET g1 == [g EXCEPT !.players[seat].frozenForTurns = @ - 1,
                                   !.players[seat].isAwaitingPowerDraw = FALSE,
                                   !.players[seat].pendingSkipCount = NoSkip,
                                   !.players[seat].hasPlayedPowerCardThisTurn = FALSE]
                   g2 == frozenPenalty(g1, seat, rnd)
                   g3 == prepareCurrentPlayerForTurn(moveSteps(g2, 1))
               IN IF safety + 1 > Len(g.players) * 4
                  THEN [g |-> g3, threw |-> TRUE]
                  ELSE resolveLoop(g3, safety + 1, rnd)

\* a variant of resolveFrozenPlayers that the termination of frozen-turn resolution
\* (C39) must tell from it: the cursor stays on the player it landed on
resolveFrozenPlayers_Unresolved(g, rnd) == [g |-> g, threw |-> FALSE]

resolveFrozenPlayers(g, rnd) == resolveLoop(g, 0, rnd)

advanceTurn(g, skipCount, rnd) ==
  IF Len(g.players) = 0 THEN [g |-> g, threw |-> FALSE]
  ELSE resolveFrozenPlayers(prepareCurrentPlayerForTurn(moveSteps(g, skipCount)), rnd)

\* two variants of ensureTurn that turn ownership (C5) and the end of the game (C6)
\* must tell from it: one lets anyone act, one lets the current player act after a win
ensureTurn_OfAnyone(g, playerId) ==
  IF ~g.hasStarted THEN "Game not started"
  ELSE IF g.winnerId # Null THEN "Game already ended"
  ELSE ""

ensureTurn_AfterTheEnd(g, playerId) ==
  IF ~g.hasStarted THEN "Game not started"
  ELSE IF getCurrentPlayer(g).id # playerId THEN "Not your turn"
  ELSE ""

\* ensureTurn: the message thrown, or "" when the call may proceed
ensureTurn(g, playerId) ==
  IF ~g.hasStarted THEN "Game not started"
  ELSE IF getCurrentPlayer(g).id # playerId THEN "Not your turn"
  ELSE IF g.winnerId # Null THEN "Game already ended"
  ELSE ""

\* a variant of evaluatePowerDrawRequirement that the deferred advance (C12) must
\* tell from it: the advance step of the card is not kept, the turn moves by 1
evaluatePowerDrawRequirement_StepLost(g, seat, skipCount) ==
  IF getRequiredPowerDraws(g.players[seat]) <= 0
  THEN [required |-> FALSE,
        g |-> [g EXCEPT !.pendingPowerDrawPlayerId =
                          IF @ = g.players[seat].id THEN Null ELSE @,
                        !.players[seat].isAwaitingPowerDraw = FALSE,
                        !.players[seat].pendingSkipCount = NoSkip]]
  ELSE [required |-> TRUE,
        g |-> [g EXCEPT !.players[seat].isAwaitingPowerDraw = TRUE,
                        !.players[seat].pendingSkipCount = 1,
                        !.pendingPowerDrawPlayerId = g.players[seat].id]]

\* a variant of evaluatePowerDrawRequirement that the pending-draw invariant (C7)
\* must tell from it: the pending id is set and the player's flag is not
evaluatePowerDrawRequirement_NoFlag(g, seat, skipCount) ==
  IF getRequiredPowerDraws(g.players[seat]) <= 0
  THEN [required |-> FALSE,
        g |-> [g EXCEPT !.pendingPowerDrawPlayerId =
                          IF @ = g.players[seat].id THEN Null ELSE @,
                        !.players[seat].isAwaitingPowerDraw = FALSE,
                        !.players[seat].pendingSkipCount = NoSkip]]
  ELSE [required |-> TRUE,
        g |-> [g EXCEPT !.players[seat].pendingSkipCount = skipCount,
                        !.pendingPowerDrawPlayerId = g.players[seat].id]]

evaluatePowerDrawRequirement(g, seat, skipCount) ==
  IF getRequiredPowerDraws(g.players[seat]) <= 0
  THEN [required |-> FALSE,
        g |-> [g EXCEPT !.pendingPowerDrawPlayerId =
                          IF @ = g.players[seat].id THEN Null ELSE @,
                        !.players[seat].isAwaitingPowerDraw = FALSE,
                        !.players[seat].pendingSkipCount = NoSkip]]
  ELSE [required |-> TRUE,
        g |-> [g EXCEPT !.players[seat].isAwaitingPowerDraw = TRUE,
                        !.players[seat].pendingSkipCount = skipCount,
                        !.pendingPowerDrawPlayerId = g.players[seat].id]]

(***************************************************************************)
(* state.ts: the public operations.  Each returns                          *)
(*   [g, error, winnerId, powerDrawRequired, affectedPlayerIds]            *)
(* with error = "" for a normal return and the message for a throw.        *)
(***************************************************************************)
Returned(g) ==
  [g |-> g, error |-> "", winnerId |-> Null, powerDrawRequired |-> FALSE,
   affectedPlayerIds |-> <<>>]

Threw(g, message) ==
  [g |-> g, error |-> message, winnerId |-> Null, powerDrawRequired |-> FALSE,
   affectedPlayerIds |-> <<>>]

\* the for loop of start(): each player takes InitialHandSize cards and is reset
RECURSIVE dealLoop(_, _, _)
dealLoop(g, seat, rnd) ==
  IF seat > Len(g.players) THEN g
  ELSE LET t == takeCards(g, InitialHandSize, rnd)
       IN dealLoop([t.g EXCEPT !.players[seat] =
                      [NewPlayer(g.players[seat].id) EXCEPT !.hand = t.cards]],
                   seat + 1, rnd)

\* a variant of the first-card loop that the start of a game (C22) must tell from
\* it: the first card of the deck opens the discard pile whatever its colour
firstCardLoop_AnyCard(deck, rnd, fuel) ==
  IF Len(deck) = 0 THEN [deck |-> deck, firstCard |-> NoCard, found |-> FALSE]
  ELSE [deck |-> Tail(deck), firstCard |-> Head(deck), found |-> TRUE]

\* the while loop of start(): [deck, firstCard, found]; found is FALSE when the deck
\* ran out (firstCard undefined) or when fuel shuffles did not surface a non-wild card
RECURSIVE firstCardLoop(_, _, _)
firstCardLoop(deck, rnd, fuel) ==
  IF Len(deck) = 0 THEN [deck |-> deck, firstCard |-> NoCard, found |-> FALSE]
  ELSE IF Head(deck).color # "wild"
       THEN [deck |-> Tail(deck), firstCard |-> Head(deck), found |-> TRUE]
       ELSE IF fuel = 0 THEN [deck |-> deck, firstCard |-> NoCard, found |-> FALSE]
            ELSE firstCardLoop(shuffle(Append(Tail(deck), Head(deck)), rnd + fuel), rnd, fuel - 1)

start(g, rnd) ==
  IF g.hasStarted THEN Returned(g)
  ELSE LET g0 == [g EXCEPT !.deck = buildDeck(rnd), !.discardPile = <<>>,
                           !.powerDeck = buildPowerDeck(rnd),
                           !.pendingPowerDrawPlayerId = Null]
           g1 == dealLoop(g0, 1, rnd)
           f == firstCardLoop(g1.deck, rnd, DeckSize)
       IN IF ~f.found
          THEN Threw([g1 EXCEPT !.deck = f.deck], "Unable to initialize discard pile")
          ELSE Returned(prepareCurrentPlayerForTurn(
                 [g1 EXCEPT !.deck = f.deck,
                            !.discardPile = Append(@, f.firstCard),
                            !.currentColor = f.firstCard.color,
                            !.direction = 1,
                            !.drawStack = 0,
                            !.currentPlayerIndex = 0,
                            !.hasStarted = TRUE]))

\* a variant of draw that the gating of a forced power draw (C8) must tell from it:
\* a player who owes a power draw may draw and end the turn
draw_WhileAwaiting(g, playerId, rnd) ==
  LET e == ensureTurn(g, playerId)
      seat == Cur(g)
  IN IF e # "" THEN Threw(g, e)
     ELSE LET isPenaltyDraw == g.drawStack > 0
              amount == IF isPenaltyDraw THEN g.drawStack ELSE DEFAULT_DRAW_COUNT
              t == takeCards(g, amount, rnd)
              g1 == markHandDirty([t.g EXCEPT !.players[seat].hand = @ \o t.cards,
                                              !.players[seat].hasCalledUno = FALSE,
                                              !.players[seat].pendingSkipCount = NoSkip], seat)
              g2 == IF isPenaltyDraw THEN [g1 EXCEPT !.drawStack = 0] ELSE g1
              a == advanceTurn(g2, 1, rnd)
          IN IF a.threw THEN Threw(a.g, "Unable to resolve frozen player turns")
             ELSE Returned(a.g)

draw(g, playerId, rnd) ==
  LET e == ensureTurn(g, playerId)
      seat == Cur(g)
  IN IF e # "" THEN Threw(g, e)
     ELSE IF g.players[seat].isAwaitingPowerDraw
     THEN Threw(g, "Draw your power card before ending your turn")
     ELSE LET isPenaltyDraw == g.drawStack > 0
              amount == IF isPenaltyDraw THEN g.drawStack ELSE DEFAULT_DRAW_COUNT
              t == takeCards(g, amount, rnd)
              g1 == markHandDirty([t.g EXCEPT !.players[seat].hand = @ \o t.cards,
                                              !.players[seat].hasCalledUno = FALSE,
                                              !.players[seat].pendingSkipCount = NoSkip], seat)
              g2 == IF isPenaltyDraw THEN [g1 EXCEPT !.drawStack = 0] ELSE g1
              a == advanceTurn(g2, 1, rnd)
          IN IF a.threw THEN Threw(a.g, "Unable to resolve frozen player turns")
             ELSE Returned(a.g)

\* hand.findIndex(card => card.id === cardId), 1-based; 0 when there is none
cardIndexOf(hand, cardId) ==
  IF \E i \in 1..Len(hand) : hand[i].id = cardId
  THEN CHOOSE i \in 1..Len(hand) :
         /\ hand[i].id = cardId
         /\ \A k \in 1..(i - 1) : hand[k].id # cardId
  ELSE 0

\* array.splice(index, 1) and array.splice(index, 0, item), 1-based
spliceOut(arr, index) == SubSeq(arr, 1, index - 1) \o SubSeq(arr, index + 1, Len(arr))

\* a variant of spliceIn that failure atomicity (C15) must tell from it: the item is
\* not put back
spliceIn_Lost(arr, index, item) == arr

spliceIn(arr, index, item) ==
  SubSeq(arr, 1, index - 1) \o <<item>> \o SubSeq(arr, index, Len(arr))

\* the switch of playCard: [skipCount, direction, drawStack]
cardEffect(g, card) ==
  CASE card.value = "reverse" ->
         [skipCount |-> IF Len(g.players) = 2 THEN 2 ELSE 1,
          direction |-> IF g.direction = 1 THEN -1 ELSE 1,
          drawStack |-> g.drawStack]
    [] card.value = "skip" ->
         [skipCount |-> 2, direction |-> g.direction, drawStack |-> g.drawStack]
    [] card.value = "draw2" ->
         [skipCount |-> 1, direction |-> g.direction, drawStack |-> g.drawStack + 2]
    [] card.value = "wild4" ->
         [skipCount |-> 1, direction |-> g.direction, drawStack |-> g.drawStack + 4]
    [] OTHER ->
         [skipCount |-> 1, direction |-> g.direction, drawStack |-> g.drawStack]

\* what playCard does once the card has passed every check
resolvePlay(g, seat, cardIndex, resolvedColor, rnd) ==
  LET card == g.players[seat].hand[cardIndex]
      g1 == markHandDirty([g EXCEPT !.players[seat].hand = spliceOut(@, cardIndex),
                                    !.discardPile = Append(@, card)], seat)
      fx == cardEffect(g1, card)
      g2 == [g1 EXCEPT !.currentColor = IF card.color = "wild" THEN resolvedColor ELSE card.color,
                       !.direction = fx.direction,
                       !.drawStack = fx.drawStack,
                       !.players[seat].hasCalledUno = (Len(g1.players[seat].hand) = 1)]
  IN IF Len(g2.players[seat].hand) = 0
     THEN [Returned([g2 EXCEPT !.winnerId = g.players[seat].id])
             EXCEPT !.winnerId = g.players[seat].id]
     ELSE LET pointsAwarded == ACTION_CARD_POINTS(card.value)
              g3 == IF pointsAwarded > 0
                    THEN [g2 EXCEPT !.players[seat].powerPoints = @ + pointsAwarded]
                    ELSE g2
              ev == evaluatePowerDrawRequirement(g3, seat, fx.skipCount)
          IN IF ev.required
             THEN [Returned(ev.g) EXCEPT !.powerDrawRequired = TRUE]
             ELSE LET a == advanceTurn(ev.g, fx.skipCount, rnd)
                  IN IF a.threw THEN Threw(a.g, "Unable to resolve frozen player turns")
                     ELSE Returned(a.g)

playCard(g, playerId, cardId, chosenColor, rnd) ==
  LET e == ensureTurn(g, playerId)
      seat == Cur(g)
      cardIndex == cardIndexOf(g.players[seat].hand, cardId)
      card == g.players[seat].hand[cardIndex]
      resolvedColor == IF card.color = "wild" THEN chosenColor ELSE card.color
  IN IF e # "" THEN Threw(g, e)
     ELSE IF g.players[seat].isAwaitingPowerDraw
     THEN Threw(g, "Draw your power card before playing another card")
     ELSE IF cardIndex = 0 THEN Threw(g, "Card not found in hand")
     ELSE IF card.color = "wild" /\ resolvedColor = Undefined
     THEN Threw(g, "Wild cards require a chosen color")
     ELSE IF ~canPlayCard(card, getTopCard(g), g.currentColor, g.drawStack)
     THEN Threw(g, "Card cannot be played")
     ELSE resolvePlay(g, seat, cardIndex, resolvedColor, rnd)

drawPowerCard(g, playerId, rnd) ==
  LET e == ensureTurn(g, playerId)
      seat == Cur(g)
  IN IF e # "" THEN Threw(g, e)
     ELSE IF getRequiredPowerDraws(g.players[seat]) <= 0
     THEN Threw(g, "Not enough points to draw a power card")
     ELSE LET g1 == ensurePowerDeckSize(g, rnd)
          IN IF Len(g1.powerDeck) = 0 THEN Threw(g1, "Power deck is empty")
             ELSE LET card == Head(g1.powerDeck)
                      spent == g1.players[seat].powerPoints - powerCardCost
                      g2 == [g1 EXCEPT !.powerDeck = Tail(@),
                                       !.players[seat].powerCards = Append(@, card),
                                       !.players[seat].powerPoints =
                                          IF spent < 0 THEN 0 ELSE spent]
                  IN IF getRequiredPowerDraws(g2.players[seat]) > 0
                     THEN Returned([g2 EXCEPT !.players[seat].isAwaitingPowerDraw = TRUE,
                                              !.pendingPowerDrawPlayerId = g2.players[seat].id])
                     ELSE LET skipCount == IF g2.players[seat].pendingSkipCount = NoSkip
                                           THEN 1 ELSE g2.players[seat].pendingSkipCount
                              g3 == [g2 EXCEPT !.players[seat].isAwaitingPowerDraw = FALSE,
                                               !.pendingPowerDrawPlayerId = Null,
                                               !.players[seat].pendingSkipCount = NoSkip]
                              a == advanceTurn(g3, skipCount, rnd)
                          IN IF a.threw
                             THEN Threw(a.g, "Unable to resolve frozen player turns")
                             ELSE Returned(a.g)

\* a variant of the cardRush loop that the frame of playPowerCard (C18) must tell
\* from it: the cards are charged to the draw stack instead of being dealt
cardRushLoop_Stacking(g, actorSeat, seat, affected, rnd) ==
  [g |-> [g EXCEPT !.drawStack = @ + 2 * (Len(g.players) - 1)],
   error |-> "", affected |-> affected]

\* the cardRush loop over this.players, in seat order
RECURSIVE cardRushLoop(_, _, _, _, _)
cardRushLoop(g, actorSeat, seat, affected, rnd) ==
  IF seat > Len(g.players) THEN [g |-> g, error |-> "", affected |-> affected]
  ELSE IF seat = actorSeat THEN cardRushLoop(g, actorSeat, seat + 1, affected, rnd)
  ELSE LET t == takeCards(g, 2, rnd)
       IN IF Len(t.cards) = 0 THEN cardRushLoop(t.g, actorSeat, seat + 1, affected, rnd)
          ELSE cardRushLoop(
                 markHandDirty([t.g EXCEPT !.players[seat].hand = @ \o t.cards,
                                           !.players[seat].hasCalledUno = FALSE], seat),
                 actorSeat, seat + 1, Append(affected, g.players[seat].id), rnd)

\* the try block of playPowerCard: [g, error, affected]
powerEffect(g, seat, powerCard, payload, rnd) ==
  LET player == g.players[seat]
      targetId == payload.targetPlayerId
      targetSeat == SeatOf(g, targetId)
      color == payload.color
  IN CASE powerCard = "cardRush" -> cardRushLoop(g, seat, 1, <<>>, rnd)
       [] powerCard = "freeze" ->
            IF targetId = Undefined \/ targetId = player.id
            THEN [g |-> g, error |-> "Select another player to freeze", affected |-> <<>>]
            ELSE IF targetSeat = 0
            THEN [g |-> g, error |-> "Player not found", affected |-> <<>>]
            ELSE [g |-> [g EXCEPT !.players[targetSeat].frozenForTurns = @ + FREEZE_TURNS],
                  error |-> "", affected |-> <<>>]
       [] powerCard = "colorRush" ->
            IF color = Undefined \/ color = "wild"
            THEN [g |-> g, error |-> "Select a valid color to discard", affected |-> <<>>]
            ELSE IF ~\E i \in 1..Len(player.hand) : player.hand[i].color = color
            THEN [g |-> g, error |-> "You do not have any cards of that color",
                  affected |-> <<>>]
            ELSE LET IsColor(c) == c.color = color
                     NotColor(c) == c.color # color
                     removed == SelectSeq(player.hand, IsColor)
                     remaining == SelectSeq(player.hand, NotColor)
                     g1 == markHandDirty(
                             [g EXCEPT !.players[seat].hand = remaining,
                                       !.players[seat].hasCalledUno = (Len(remaining) = 1)],
                             seat)
                 IN [g |-> [g1 EXCEPT !.deck = shuffle(@ \o removed, rnd)],
                     error |-> "", affected |-> <<player.id>>]
       [] powerCard = "swapHands" ->
            IF targetId = Undefined \/ targetId = player.id
            THEN [g |-> g, error |-> "Select another player to swap with", affected |-> <<>>]
            ELSE IF targetSeat = 0
            THEN [g |-> g, error |-> "Player not found", affected |-> <<>>]
            ELSE LET target == g.players[targetSeat]
                     g1 == [g EXCEPT !.players[seat].hand = target.hand,
                                     !.players[targetSeat].hand = player.hand,
                                     !.players[seat].hasCalledUno = (Len(target.hand) = 1),
                                     !.players[targetSeat].hasCalledUno = (Len(player.hand) = 1)]
                 IN [g |-> markHandDirty(markHandDirty(g1, seat), targetSeat),
                     error |-> "", affected |-> <<player.id, target.id>>]
       [] OTHER -> [g |-> g, error |-> "Unknown power card", affected |-> <<>>]

\* a power card's id is its position in the holder's inventory (ids are unique, so
\* findIndex by id is a choice of position; 0 when the id is in no position)
playPowerCard(g, playerId, payload, rnd) ==
  LET e == ensureTurn(g, playerId)
      seat == Cur(g)
      player == g.players[seat]
      cardIndex == IF payload.cardId \in 1..Len(player.powerCards) THEN payload.cardId ELSE 0
  IN IF e # "" THEN Threw(g, e)
     ELSE IF player.isAwaitingPowerDraw THEN Threw(g, "Draw your power card before playing one")
     ELSE IF player.hasPlayedPowerCardThisTurn
     THEN Threw(g, "You have already played a power card this turn")
     ELSE IF cardIndex = 0 THEN Threw(g, "Power card not found")
     ELSE LET powerCard == player.powerCards[cardIndex]
              g1 == [g EXCEPT !.players[seat].powerCards = spliceOut(@, cardIndex)]
              r == powerEffect(g1, seat, powerCard, payload, rnd)
          IN IF r.error # ""
             THEN Threw([r.g EXCEPT !.players[seat].powerCards = spliceIn(@, cardIndex, powerCard)],
                        r.error)
             ELSE [Returned([r.g EXCEPT !.players[seat].hasPlayedPowerCardThisTurn = TRUE])
                     EXCEPT !.affectedPlayerIds = r.affected]

consumePendingHandSyncs(g) == [g EXCEPT !.pendingHandSyncs = {}]

(***************************************************************************)
(* room-service.ts: the room, its turn timer and the handlers that drive   *)
(* the engine.  steps counts the handler runs that changed the engine.     *)
(***************************************************************************)
\* turnTimers.get(room.code): no timeout is pending, or the one set by the handler
\* run that brought steps to this number
NoTimer == 0

NoGame == NewGame(<<>>)

ChosenColors == Range(CARD_COLORS) \cup {"wild", Undefined}

Callers == Range(room.players) \cup {UnknownPlayer}

Targets == Range(room.players) \cup {UnknownPlayer, Undefined}

Rnd == 0..(RandDenom - 1)

\* createPlayer: the room's record of a player who has just taken a seat
EmptyCache == [hand |-> <<>>, powerCards |-> <<>>]

\* a waiting room of n connected players, as n - 1 joins leave the room of its creator
WaitingRoom(n) ==
  [players |-> SubSeq(PlayerIdOfSeat, 1, n), hostId |-> PlayerIdOfSeat[1],
   status |-> "waiting", game |-> FALSE, finishing |-> 0,
   names |-> SubSeq(NameOfSeat, 1, n),
   connected |-> [i \in 1..n |-> TRUE],
   cache |-> [i \in 1..n |-> EmptyCache],
   created |-> n, registered |-> TRUE]

Init ==
  /\ \E n \in MIN_PLAYERS_TO_START..MaxPlayers : room = WaitingRoom(n)
  /\ game = NoGame
  /\ turnTimer = NoTimer
  /\ steps = 0

\* room.players.findIndex((p) => p.id === playerId), 1-based; 0 when there is none
RoomSeatOf(rm, playerId) ==
  IF \E i \in 1..Len(rm.players) : rm.players[i] = playerId
  THEN CHOOSE i \in 1..Len(rm.players) : rm.players[i] = playerId
  ELSE 0

\* roomPlayer.hand = room.game.getHand(playerId) for every id of ids the room still
\* has: the hand updates of a handler and the loop of syncDirtyHands
cacheHands(rm, g, ids) ==
  [rm EXCEPT !.cache = [i \in 1..Len(rm.players) |->
                          IF rm.players[i] \in ids
                          THEN [@[i] EXCEPT !.hand = g.players[SeatOf(g, rm.players[i])].hand]
                          ELSE @[i]]]

\* syncPowerState: roomPlayer.powerCards = room.game.getPowerState(playerId).cards
syncPowerState(rm, g, playerId) ==
  [rm EXCEPT !.cache = [i \in 1..Len(rm.players) |->
                          IF rm.players[i] = playerId
                          THEN [@[i] EXCEPT !.powerCards =
                                              g.players[SeatOf(g, playerId)].powerCards]
                          ELSE @[i]]]

\* syncDirtyHands, on the room; the engine's set is emptied by consumePendingHandSyncs
syncDirtyHands(rm, g, excludeIds) == cacheHands(rm, g, g.pendingHandSyncs \ excludeIds)

\* scheduleTurnTimer / clearTurnTimer: the timeout pending for the room afterwards,
\* a new one set at `at` or none
scheduleTurnTimer(rm, at) ==
  IF rm.status = "in-progress" /\ rm.game THEN at ELSE NoTimer

\* finishGame from the resumption of its await (or from its start when nothing is awaited)
\* the outcomes finishGame reports (472-479): one for every player of the room who
\* has an account, in seat order; userIds[i] is the userId of seat i, Null for none
RECURSIVE finishGameOutcomes(_, _, _, _)
finishGameOutcomes(rm, userIds, winnerId, i) ==
  IF i > Len(rm.players) THEN <<>>
  ELSE (IF userIds[i] # Null
        THEN <<[userId |-> userIds[i], didWin |-> rm.players[i] = winnerId]>>
        ELSE <<>>)
       \o finishGameOutcomes(rm, userIds, winnerId, i + 1)

\* a variant of finishGameCleanup that the end of a game (C24) must tell from it:
\* the room keeps the hands and power cards it recorded
finishGameCleanup_KeepingCaches(rm) == [rm EXCEPT !.status = "waiting", !.game = FALSE]

finishGameCleanup(rm) ==
  [rm EXCEPT !.status = "waiting", !.game = FALSE,
             !.cache = [i \in 1..Len(rm.players) |-> EmptyCache]]

(***************************************************************************)
(* What the handlers emit, in the order of their emit calls.  An event is  *)
(* addressed to the socket of one player, to the whole room ("room") or to *)
(* the room but the calling socket ("others"); about names the player      *)
(* whose cards or alert it carries.                                        *)
(***************************************************************************)
Emit(event, to, about, cards) ==
  [event |-> event, to |-> to, about |-> about, cards |-> cards]

\* io.to(roomPlayer.socketId).emit("handUpdate", {cards: getHand(playerId)}), sent
\* when the room has the player and the player has a socket
handUpdateEmit(rm, g, playerId) ==
  IF RoomSeatOf(rm, playerId) # 0 /\ rm.connected[RoomSeatOf(rm, playerId)]
  THEN <<Emit("handUpdate", playerId, playerId, g.players[SeatOf(g, playerId)].hand)>>
  ELSE <<>>

\* the emit of syncPowerState (587-589)
powerStateEmit(rm, g, playerId) ==
  IF RoomSeatOf(rm, playerId) # 0 /\ rm.connected[RoomSeatOf(rm, playerId)]
  THEN <<Emit("powerStateUpdate", playerId, playerId,
              g.players[SeatOf(g, playerId)].powerCards)>>
  ELSE <<>>

\* the hand updates of a list of players, in the order of the list
RECURSIVE handUpdateEmits(_, _, _)
handUpdateEmits(rm, g, ids) ==
  IF ids = <<>> THEN <<>>
  ELSE handUpdateEmit(rm, g, Head(ids)) \o handUpdateEmits(rm, g, Tail(ids))

\* the ids of a list that are in a set, in the order of the list and once each
RECURSIVE idsIn(_, _)
idsIn(ids, set) ==
  IF ids = <<>> THEN <<>>
  ELSE (IF Head(ids) \in set THEN <<Head(ids)>> ELSE <<>>)
       \o idsIn(Tail(ids), set \ {Head(ids)})

\* the emits of syncDirtyHands (598-604): the drained players but the excluded ones;
\* the set is iterated here in seat order
dirtyHandEmits(rm, g, excludeIds) ==
  handUpdateEmits(rm, g,
                  idsIn([i \in 1..Len(g.players) |-> g.players[i].id],
                        g.pendingHandSyncs \ excludeIds))

\* the emit of broadcastState
stateUpdateEmit(rm) == IF rm.game THEN <<Emit("stateUpdate", "room", Null, <<>>)>> ELSE <<>>

\* the rushAlert of handlePlayCard (253-256), to the room but the calling socket
rushAlertOfPlay(rm, g, playerId) ==
  IF RoomSeatOf(rm, playerId) # 0 /\ Len(g.players[SeatOf(g, playerId)].hand) = 1
  THEN <<Emit("rushAlert", "others", playerId, <<>>)>>
  ELSE <<>>

\* the rushAlerts of handlePlayPowerCard (352-368): the candidates of a list that
\* the room has and that hold one card, to the whole room
RECURSIVE rushAlertsOfPower(_, _, _)
rushAlertsOfPower(rm, g, ids) ==
  IF ids = <<>> THEN <<>>
  ELSE (IF /\ RoomSeatOf(rm, Head(ids)) # 0
           /\ Len(g.players[SeatOf(g, Head(ids))].hand) = 1
        THEN <<Emit("rushAlert", "room", Head(ids), <<>>)>>
        ELSE <<>>)
       \o rushAlertsOfPower(rm, g, Tail(ids))

\* handlePlayCard after playCard returned r (240-265); a winner is announced by
\* finishGame (486) and no state is broadcast
playCardEmits(rm, r, playerId) ==
  handUpdateEmit(rm, r.g, playerId)
  \o powerStateEmit(rm, r.g, playerId)
  \o rushAlertOfPlay(rm, r.g, playerId)
  \o dirtyHandEmits(rm, r.g, {playerId})
  \o (IF r.winnerId # Null THEN <<Emit("gameEnded", "room", r.winnerId, <<>>)>>
      ELSE stateUpdateEmit(rm))

\* handleDrawCard after draw returned r (279-291)
drawEmits(rm, r, playerId) ==
  handUpdateEmit(rm, r.g, playerId)
  \o dirtyHandEmits(rm, r.g, {playerId})
  \o stateUpdateEmit(rm)

\* handleDrawPowerCard after drawPowerCard returned r (306-308)
drawPowerEmits(rm, r, playerId) ==
  powerStateEmit(rm, r.g, playerId)
  \o dirtyHandEmits(rm, r.g, {playerId})
  \o stateUpdateEmit(rm)

\* handlePlayPowerCard after playPowerCard returned r (324-370)
playPowerEmits(rm, r, playerId) ==
  handUpdateEmit(rm, r.g, playerId)
  \o powerStateEmit(rm, r.g, playerId)
  \o handUpdateEmits(rm, r.g, idsIn(r.affectedPlayerIds, Range(r.affectedPlayerIds)))
  \o dirtyHandEmits(rm, r.g, {playerId} \cup Range(r.affectedPlayerIds))
  \o rushAlertsOfPower(rm, r.g,
                       idsIn(<<playerId>> \o r.affectedPlayerIds,
                             {playerId} \cup Range(r.affectedPlayerIds)))
  \o stateUpdateEmit(rm)

\* handleTurnTimeout after its engine call returned r for the player who was
\* current (534-550)
timeoutEmits(rm, r, current) ==
  (IF current.isAwaitingPowerDraw THEN powerStateEmit(rm, r.g, current.id) ELSE <<>>)
  \o handUpdateEmit(rm, r.g, current.id)
  \o dirtyHandEmits(rm, r.g, {current.id})
  \o stateUpdateEmit(rm)

\* a variant of getPublicState that hidden information (C34) must tell from it: the
\* summary of a player carries the first card of the hand
getPublicState_WithFirstCard(g, hostId) ==
  [players |-> [i \in 1..Len(g.players) |->
                  [id |-> g.players[i].id, isHost |-> g.players[i].id = hostId,
                   cardCount |-> Len(g.players[i].hand),
                   firstCard |-> IF g.players[i].hand = <<>> THEN NoCard
                                 ELSE Head(g.players[i].hand)]],
   currentPlayerId |-> getCurrentPlayer(g).id,
   discardTop |-> getTopCard(g)]

\* UnoGame.getPublicState of a started game: the payload of stateUpdate and of
\* gameStarted (roomCode, names and startedAt, which no operation changes, left out)
getPublicState(g, hostId) ==
  [players |-> [i \in 1..Len(g.players) |->
                  [id |-> g.players[i].id, isHost |-> g.players[i].id = hostId,
                   cardCount |-> Len(g.players[i].hand),
                   hasCalledUno |-> g.players[i].hasCalledUno,
                   powerCardCount |-> Len(g.players[i].powerCards),
                   powerPoints |-> g.players[i].powerPoints,
                   frozenForTurns |-> g.players[i].frozenForTurns]],
   currentPlayerId |-> getCurrentPlayer(g).id,
   direction |-> g.direction,
   discardTop |-> getTopCard(g),
   currentColor |-> g.currentColor,
   drawStack |-> g.drawStack,
   pendingPowerDrawPlayerId |-> g.pendingPowerDrawPlayerId]

\* emitLobby: the payload of lobbyUpdate, from what the room records of its players
lobbyState(rm) ==
  [hostId |-> rm.hostId, status |-> rm.status,
   players |-> [i \in 1..Len(rm.players) |->
                  [id |-> rm.players[i], name |-> rm.names[i],
                   isHost |-> rm.players[i] = rm.hostId,
                   cardCount |-> Len(rm.cache[i].hand),
                   powerCardCount |-> Len(rm.cache[i].powerCards)]]]

\* a handler whose engine call threw: the error goes to the caller alone, the engine
\* is left as it was at the throw
Refused(r) ==
  /\ game' = r.g
  /\ UNCHANGED <<room, turnTimer, steps>>

\* a variant of gameStartedEmits that start gating (C28) must tell from it: every
\* socket is sent the hand of the first seat
gameStartedEmits_FirstHand(rm, g) ==
  [i \in {j \in 1..Len(rm.players) : rm.connected[j]} |->
     [event |-> "gameStarted",
      players |-> [s \in 1..Len(g.players) |-> g.players[s].id],
      cards |-> g.players[1].hand]]

\* the gameStarted events of handleStart (214-224): one to the socket of every
\* connected player, with the public seat order and that player's own hand
gameStartedEmits(rm, g) ==
  [i \in {j \in 1..Len(rm.players) : rm.connected[j]} |->
     [event |-> "gameStarted",
      players |-> [s \in 1..Len(g.players) |-> g.players[s].id],
      cards |-> g.players[SeatOf(g, rm.players[i])].hand]]

\* handleStart from its call of game.start() on (207-228), r being what start() made
\* of the new engine: thrown is the error of start(), which leaves the room as it was
startedGame(rm, r, at) ==
  LET started == [rm EXCEPT !.game = TRUE, !.status = "in-progress",
                            !.cache = [i \in 1..Len(rm.players) |->
                                         [hand |-> r.g.players[i].hand,
                                          powerCards |-> <<>>]]]
  IN [refused |-> FALSE, error |-> "", errorTo |-> {}, thrown |-> r.error,
      rm |-> started, g |-> r.g, timer |-> scheduleTurnTimer(started, at),
      sent |-> gameStartedEmits(started, r.g)]

\* handleStart for a socket bound to caller: the error emitted to that socket, or the
\* room, the engine, the timer set at `at` and the events sent
startGame(rm, g, caller, rnd, at) ==
  LET Refusal(message) ==
        [refused |-> TRUE, error |-> message, errorTo |-> {caller}, thrown |-> "",
         rm |-> rm, g |-> g, timer |-> NoTimer, sent |-> <<>>]
  IN IF rm.hostId # caller THEN Refusal("Only the host can start the game")
     ELSE IF Len(rm.players) < MIN_PLAYERS_TO_START
     THEN Refusal("Need at least two players to start")
     ELSE startedGame(rm, start(NewGame(rm.players), rnd), at)

\* the state handleStart leaves, s being the outcome of startGame
AfterStart(s) ==
  IF s.refused THEN UNCHANGED vars
  ELSE /\ s.thrown = ""
       /\ game' = s.g
       /\ room' = s.rm
       /\ turnTimer' = s.timer
       /\ steps' = steps + 1

handleStart(caller, rnd) ==
  /\ steps < MaxSteps
  /\ AfterStart(startGame(room, game, caller, rnd, steps + 1))

\* the end of handlePlayCard when playCard returned: a winner starts finishGame, which
\* is suspended at its await when some player has an account (reported) and runs to
\* its end at once otherwise
AfterPlay(r, reported) ==
  LET rm == syncDirtyHands(
              syncPowerState(cacheHands(room, r.g, {getCurrentPlayer(game).id}),
                             r.g, getCurrentPlayer(game).id),
              r.g, {getCurrentPlayer(game).id})
  IN IF r.winnerId # Null
     THEN IF reported
          THEN /\ game' = consumePendingHandSyncs(r.g)
               /\ room' = [rm EXCEPT !.finishing = @ + 1]
               /\ UNCHANGED turnTimer
          ELSE /\ game' = NoGame
               /\ room' = finishGameCleanup(rm)
               /\ turnTimer' = NoTimer
     ELSE /\ game' = consumePendingHandSyncs(r.g)
          /\ turnTimer' = scheduleTurnTimer(rm, steps + 1)
          /\ room' = rm

\* the state handlePlayCard leaves, r being the outcome of playCard
AfterPlayCard(r, reported) ==
  IF r.error # "" THEN Refused(r)
  ELSE /\ AfterPlay(r, reported)
       /\ steps' = steps + 1

handlePlayCard(caller, cardId, chosenColor, rnd, reported) ==
  /\ room.game
  /\ steps < MaxSteps
  /\ AfterPlayCard(playCard(game, caller, cardId, chosenColor, rnd), reported)

\* the state handleDrawCard leaves, r being the outcome of draw
AfterDraw(r, caller) ==
  IF r.error # "" THEN Refused(r)
  ELSE /\ game' = consumePendingHandSyncs(r.g)
       /\ turnTimer' = scheduleTurnTimer(room, steps + 1)
       /\ steps' = steps + 1
       /\ room' = syncDirtyHands(cacheHands(room, r.g, {caller}), r.g, {caller})

handleDrawCard(caller, rnd) ==
  /\ room.game
  /\ steps < MaxSteps
  /\ AfterDraw(draw(game, caller, rnd), caller)

\* the state handleDrawPowerCard leaves, r being the outcome of drawPowerCard
AfterDrawPower(r, caller) ==
  IF r.error # "" THEN Refused(r)
  ELSE /\ game' = consumePendingHandSyncs(r.g)
       /\ turnTimer' = scheduleTurnTimer(room, steps + 1)
       /\ steps' = steps + 1
       /\ room' = syncDirtyHands(syncPowerState(room, r.g, caller), r.g, {caller})

handleDrawPowerCard(caller, rnd) ==
  /\ room.game
  /\ steps < MaxSteps
  /\ AfterDrawPower(drawPowerCard(game, caller, rnd), caller)

\* the state handlePlayPowerCard leaves, r being the outcome of playPowerCard
AfterPlayPower(r, caller) ==
  IF r.error # "" THEN Refused(r)
  ELSE /\ game' = consumePendingHandSyncs(r.g)
       /\ steps' = steps + 1
       /\ room' = syncDirtyHands(
                    cacheHands(syncPowerState(cacheHands(room, r.g, {caller}), r.g, caller),
                               r.g, Range(r.affectedPlayerIds)),
                    r.g, {caller} \cup Range(r.affectedPlayerIds))
       /\ UNCHANGED turnTimer

handlePlayPowerCard(caller, cardId, targetPlayerId, color, rnd) ==
  /\ room.game
  /\ steps < MaxSteps
  /\ AfterPlayPower(
       playPowerCard(game, caller,
                     [cardId |-> cardId, targetPlayerId |-> targetPlayerId, color |-> color],
                     rnd),
       caller)

\* a variant of timeoutCall that the expiry of the turn timer (C25) must tell from it:
\* the server draws a card whatever the current player owes
timeoutCall_AlwaysDraw(g, rnd) == draw(g, getCurrentPlayer(g).id, rnd)

\* the engine call of handleTurnTimeout, made for the player who is current at expiry
timeoutCall(g, rnd) ==
  IF getCurrentPlayer(g).isAwaitingPowerDraw
  THEN drawPowerCard(g, getCurrentPlayer(g).id, rnd)
  ELSE draw(g, getCurrentPlayer(g).id, rnd)

\* the state handleTurnTimeout leaves in a room in progress, r being the outcome of
\* the engine call made for the player current at expiry; a call that threw is
\* logged, and the timer is set again in either case
AfterTimeout(r, current) ==
  LET rm == IF current.isAwaitingPowerDraw
            THEN syncPowerState(room, r.g, current.id) ELSE room
  IN /\ turnTimer' = scheduleTurnTimer(room, IF r.error # "" THEN steps ELSE steps + 1)
     /\ game' = IF r.error # "" THEN r.g ELSE consumePendingHandSyncs(r.g)
     /\ steps' = IF r.error # "" THEN steps ELSE steps + 1
     /\ room' = IF r.error # "" THEN room
                ELSE syncDirtyHands(cacheHands(rm, r.g, {current.id}), r.g, {current.id})

handleTurnTimeout(rnd) ==
  /\ turnTimer # NoTimer
  /\ steps < MaxSteps
  /\ IF ~room.registered \/ room.status # "in-progress" \/ ~room.game
     THEN /\ turnTimer' = NoTimer
          /\ UNCHANGED <<room, game, steps>>
     ELSE AfterTimeout(timeoutCall(game, rnd), getCurrentPlayer(game))

finishGameResume ==
  /\ room.finishing > 0
  /\ room' = [finishGameCleanup(room) EXCEPT !.finishing = @ - 1]
  /\ game' = NoGame
  /\ turnTimer' = NoTimer
  /\ UNCHANGED steps

(***************************************************************************)
(* The inputs of the handlers.  A connection names a seat of the room or   *)
(* no seat of the engine; a card of its own hand or a card it does not     *)
(* hold; a colour only with a wild card (the engine reads chosenColor of   *)
(* no other card); a power card of its inventory or none, and a target and *)
(* a colour only with a power card it holds.  A call that is not the       *)
(* current player's draws no random sample and ends no game.               *)
(***************************************************************************)
IsTurnOf(caller) == room.game /\ getCurrentPlayer(game).id = caller

HandOf(caller) ==
  IF room.game /\ SeatOf(game, caller) # 0 THEN game.players[SeatOf(game, caller)].hand
  ELSE <<>>

CardChoices(caller) == {HandOf(caller)[i].id : i \in 1..Len(HandOf(caller))} \cup {NoCard}

ColorChoices(caller, cardId) ==
  IF \E i \in 1..Len(HandOf(caller)) :
       HandOf(caller)[i].id = cardId /\ HandOf(caller)[i].color = "wild"
  THEN ChosenColors ELSE {Undefined}

PowerChoices(caller) ==
  IF room.game /\ SeatOf(game, caller) # 0
  THEN 0..Len(game.players[SeatOf(game, caller)].powerCards)
  ELSE {0}

TargetChoices(cardId) == IF cardId = 0 THEN {Undefined} ELSE Targets

PowerColorChoices(cardId) == IF cardId = 0 THEN {Undefined} ELSE ChosenColors

RndFor(caller) == IF IsTurnOf(caller) THEN Rnd ELSE {0}

ReportedFor(caller) == IF IsTurnOf(caller) THEN BOOLEAN ELSE {FALSE}

Next ==
  \/ \E caller \in Callers, rnd \in Rnd : handleStart(caller, rnd)
  \/ \E caller \in Callers :
       \E cardId \in CardChoices(caller) :
         \E chosenColor \in ColorChoices(caller, cardId), rnd \in RndFor(caller),
            reported \in ReportedFor(caller) :
           handlePlayCard(caller, cardId, chosenColor, rnd, reported)
  \/ \E caller \in Callers : \E rnd \in RndFor(caller) : handleDrawCard(caller, rnd)
  \/ \E caller \in Callers : \E rnd \in RndFor(caller) : handleDrawPowerCard(caller, rnd)
  \/ \E caller \in Callers :
       \E cardId \in PowerChoices(caller) :
         \E targetPlayerId \in TargetChoices(cardId), color \in PowerColorChoices(cardId),
            rnd \in RndFor(caller) :
           handlePlayPowerCard(caller, cardId, targetPlayerId, color, rnd)
  \/ \E rnd \in Rnd : handleTurnTimeout(rnd)
  \/ finishGameResume

Spec == Init /\ [][Next]_vars

(***************************************************************************)
(* room-service.ts: the lobby.  A second specification follows the room    *)
(* from its creation: players join, disconnect, rejoin and leave, and the  *)
(* connected ones drive the engine.  Names and room codes are drawn from a *)
(* small alphabet on which trim, toUpperCase and toLowerCase are tabled.   *)
(* No hand is emptied within LobbyMaxSteps handler runs, so finishGame     *)
(* never starts here: the end of a game is followed in Spec.               *)
(***************************************************************************)
\* MAX_PLAYERS, scaled with the deck: the code's value is 6
MAX_PLAYERS == MaxPlayers

\* the code the room was registered under by handleCreateRoom
RoomCode == "ROOM01"

\* String.prototype.trim / toUpperCase / toLowerCase on the strings the inputs use
trim(str) == CASE str = " " -> "" [] str = " cy" -> "cy" [] OTHER -> str

toUpperCase(str) == CASE str = "room01" -> "ROOM01" [] str = "noroom" -> "NOROOM" [] OTHER -> str

\* a variant of toLowerCase that lobby admission (C27) must tell from it: names are
\* compared as they are written
toLowerCase_AsWritten(str) == str

toLowerCase(str) == CASE str = "ANN" -> "ann" [] OTHER -> str

\* payload.name and payload.roomCode of a joinRoom event
JoinNames == {" ", "ANN", "bob", " cy"}

JoinCodes == {"room01", "noroom", " "}

\* the sockets bound to a seat of the room: one for each connected player
Connections == {room.players[i] : i \in {j \in 1..Len(room.players) : room.connected[j]}}

\* room.players.find(...) over seats: the first seat of a set, in seat order
FirstSeat(seats) == CHOOSE i \in seats : \A j \in seats : i <= j

\* the room right after handleCreateRoom: its creator alone, as host
LobbyInit ==
  /\ room = WaitingRoom(1)
  /\ game = NoGame
  /\ turnTimer = NoTimer
  /\ steps = 0

\* a variant of rejoinEmits that rejoining (C26) must tell from it: the socket is told
\* its player id and nothing of the game
rejoinEmits_IdentifiedOnly(rm, g, playerId) ==
  <<[event |-> "playerIdentified", playerId |-> playerId]>>

\* what the rejoin branch emits to the rejoining socket (136-145)
rejoinEmits(rm, g, playerId) ==
  <<[event |-> "playerIdentified", playerId |-> playerId]>> \o
  (IF rm.game
   THEN LET player == g.players[SeatOf(g, playerId)]
        IN <<[event |-> "gameStarted",
              players |-> [i \in 1..Len(g.players) |-> g.players[i].id],
              cards |-> player.hand],
             [event |-> "handUpdate", cards |-> player.hand],
             [event |-> "powerStateUpdate", points |-> player.powerPoints,
              cards |-> player.powerCards,
              requiredDraws |-> getRequiredPowerDraws(player)]>>
   ELSE <<>>)

\* handleJoinRoom: the room afterwards, the callback's arguments and the events sent
\* to the joining socket
joinRoom(rm, g, code, rawName) ==
  LET name == trim(rawName)
      roomCode == toUpperCase(trim(code))
      sameName == {i \in 1..Len(rm.players) :
                     toLowerCase(rm.names[i]) = toLowerCase(name)}
      rejoining == {i \in sameName : ~rm.connected[i]}
      Rejected(message) ==
        [rm |-> rm, success |-> FALSE, message |-> message, sent |-> <<>>]
  IN IF name = "" \/ roomCode = "" THEN Rejected("Room code and name are required")
     ELSE IF ~rm.registered \/ roomCode # RoomCode THEN Rejected("Room not found")
     ELSE IF rejoining # {}
     THEN LET i == FirstSeat(rejoining)
              bound == [rm EXCEPT !.connected[i] = TRUE]
          IN [rm |-> IF rm.game THEN syncPowerState(bound, g, rm.players[i]) ELSE bound,
              success |-> TRUE, message |-> "",
              sent |-> rejoinEmits(rm, g, rm.players[i])]
     ELSE IF rm.status = "in-progress" THEN Rejected("Game already in progress")
     ELSE IF Len(rm.players) >= MAX_PLAYERS THEN Rejected("Room is full")
     ELSE IF sameName # {} THEN Rejected("Display name already in use in this room")
     ELSE [rm |-> [rm EXCEPT !.players = Append(@, PlayerIdOfSeat[rm.created + 1]),
                             !.names = Append(@, name),
                             !.connected = Append(@, TRUE),
                             !.cache = Append(@, EmptyCache),
                             !.created = @ + 1],
           success |-> TRUE, message |-> "",
           sent |-> <<[event |-> "playerIdentified",
                       playerId |-> PlayerIdOfSeat[rm.created + 1]]>>]

handleJoinRoom(code, rawName) ==
  /\ room' = joinRoom(room, game, code, rawName).rm
  /\ room'.created <= MaxCreated
  /\ UNCHANGED <<game, turnTimer, steps>>

\* handleDisconnect, on the room
disconnect(rm, playerId) ==
  LET i == RoomSeatOf(rm, playerId)
      off == [rm EXCEPT !.connected[i] = FALSE]
      stillConnected == {j \in 1..Len(rm.players) : off.connected[j]}
  IN IF ~rm.registered \/ i = 0 THEN rm
     ELSE IF rm.status = "waiting" /\ rm.hostId = playerId /\ stillConnected # {}
     THEN [off EXCEPT !.hostId = rm.players[FirstSeat(stillConnected)]]
     ELSE off

handleDisconnect(playerId) ==
  /\ room' = disconnect(room, playerId)
  /\ UNCHANGED <<game, turnTimer, steps>>

\* leaveRoom, on the room and its timer.  UnoGame has no removePlayer: in a room that
\* is in progress the call at 430 throws a TypeError, after the player was spliced out
\* and the host replaced, and nothing of 431-438 runs
leaveRoomOf(rm, timer, playerId) ==
  LET i == RoomSeatOf(rm, playerId)
      spliced == [rm EXCEPT !.players = spliceOut(@, i), !.names = spliceOut(@, i),
                            !.connected = spliceOut(@, i), !.cache = spliceOut(@, i)]
      hosted == IF rm.hostId = playerId
                THEN [spliced EXCEPT !.hostId = spliced.players[1]] ELSE spliced
  IN IF ~rm.registered \/ i = 0 THEN [rm |-> rm, timer |-> timer, threw |-> FALSE]
     ELSE IF Len(spliced.players) = 0
     THEN [rm |-> [spliced EXCEPT !.registered = FALSE], timer |-> NoTimer,
           threw |-> FALSE]
     ELSE [rm |-> hosted, timer |-> timer,
           threw |-> hosted.status = "in-progress" /\ hosted.game]

leaveRoom(playerId) ==
  /\ room' = leaveRoomOf(room, turnTimer, playerId).rm
  /\ turnTimer' = leaveRoomOf(room, turnTimer, playerId).timer
  /\ UNCHANGED <<game, steps>>

\* socket.data.playerId after handleJoinRoom of a socket whose data named playerId:
\* the seat it rejoined (119) or was given (148), and what it was after a refusal
joinedPlayerId(rm, g, playerId, code, rawName) ==
  LET joined == joinRoom(rm, g, code, rawName)
  IN IF joined.success THEN joined.sent[1].playerId ELSE playerId

\* the samples of Math.random the lobby specification draws
LobbyRnd == {0}

LobbyNext ==
  \/ \E code \in JoinCodes, rawName \in JoinNames : handleJoinRoom(code, rawName)
  \/ \E playerId \in Connections : handleDisconnect(playerId)
  \/ \E playerId \in Connections : leaveRoom(playerId)
  \/ \E caller \in Connections, rnd \in LobbyRnd :
       steps < LobbyMaxSteps /\ handleStart(caller, rnd)
  \/ \E caller \in Connections :
       \E cardId \in CardChoices(caller) :
         \E chosenColor \in ColorChoices(caller, cardId),
            rnd \in RndFor(caller) \cap LobbyRnd, reported \in ReportedFor(caller) :
           steps < LobbyMaxSteps /\ handlePlayCard(caller, cardId, chosenColor, rnd, reported)
  \/ \E caller \in Connections : \E rnd \in RndFor(caller) \cap LobbyRnd :
       steps < LobbyMaxSteps /\ handleDrawCard(caller, rnd)
  \/ \E caller \in Connections : \E rnd \in RndFor(caller) \cap LobbyRnd :
       steps < LobbyMaxSteps /\ handleDrawPowerCard(caller, rnd)
  \/ \E caller \in Connections :
       \E cardId \in PowerChoices(caller) :
         \E targetPlayerId \in TargetChoices(cardId), color \in PowerColorChoices(cardId),
            rnd \in RndFor(caller) \cap LobbyRnd :
           steps < LobbyMaxSteps
           /\ handlePlayPowerCard(caller, cardId, targetPlayerId, color, rnd)
  \/ \E rnd \in LobbyRnd : steps < LobbyMaxSteps /\ handleTurnTimeout(rnd)

LobbySpec == LobbyInit /\ [][LobbyNext]_vars

(***************************************************************************)
(* Properties.  A property of a call is stated on the state the call is    *)
(* made in: the handlers apply the same operators to the same state, so    *)
(* what holds of op(game, ...) in every reachable state holds of every     *)
(* call the handlers make, returned or thrown.                             *)
(***************************************************************************)
Started == room.game /\ game.hasStarted

Actor == getCurrentPlayer(game)

\* the ids a client can name as a card: any card of the deck, or none of them
AnyCard == CardIds \cup {NoCard}

\* the payloads of playPowerCard: a position of the current inventory or none
Payloads ==
  [cardId : 0..Len(Actor.powerCards), targetPlayerId : Targets, color : ChosenColors]

\* the call threw and left the engine as it was
FailsUnchanged(r) == r.error # "" /\ r.g = game

RECURSIVE handsFrom(_, _)
handsFrom(g, seat) ==
  IF seat > Len(g.players) THEN <<>> ELSE g.players[seat].hand \o handsFrom(g, seat + 1)

\* every card of the deck built at start is in exactly one of: a hand, the draw
\* pile, the discard pile
Conserved(g) ==
  LET everywhere == handsFrom(g, 1) \o g.deck \o g.discardPile
  IN /\ Len(everywhere) = DeckSize
     /\ {everywhere[i].id : i \in 1..Len(everywhere)} = CardIds

\* C1: after start(), the cards in all hands, the draw pile and the discard pile are
\* exactly the cards of the deck built at start, each in one place, in every state
\* reached by playCard, draw, drawPowerCard and playPowerCard calls, and in the
\* engine every such call (returned or thrown) leaves behind.
C1_CardConservation ==
  Started =>
    /\ Conserved(game)
    /\ \A rnd \in Rnd :
         /\ \A cardId \in CardChoices(Actor.id) :
              \A chosenColor \in ColorChoices(Actor.id, cardId) :
                Conserved(playCard(game, Actor.id, cardId, chosenColor, rnd).g)
         /\ Conserved(draw(game, Actor.id, rnd).g)
         /\ Conserved(drawPowerCard(game, Actor.id, rnd).g)
         /\ \A payload \in Payloads : Conserved(playPowerCard(game, Actor.id, payload, rnd).g)

\* C1 happens: cards have been played and drawn, the draw pile has run out and been
\* rebuilt from the discard pile, and a cardRush is about to deal from it
C1_Witness ==
  /\ Started /\ game.winnerId = Null
  /\ Len(game.discardPile) >= 2
  /\ \E seat \in 1..Len(game.players) : Len(game.players[seat].hand) > InitialHandSize
  /\ \E k \in 1..Len(Actor.powerCards) :
       /\ Actor.powerCards[k] = "cardRush"
       /\ playPowerCard(game, Actor.id,
                        [cardId |-> k, targetPlayerId |-> Undefined, color |-> Undefined],
                        0).error = ""

\* C5: in a started game a call of playCard, draw, drawPowerCard or playPowerCard
\* with the id of anyone but the current player (a seated player or an id the engine
\* does not know) throws and leaves the engine unchanged, whatever the inputs.
C5_TurnOwnership ==
  Started =>
    \A caller \in Callers \ {Actor.id} : \A rnd \in Rnd :
      /\ \A cardId \in AnyCard, chosenColor \in ChosenColors :
           FailsUnchanged(playCard(game, caller, cardId, chosenColor, rnd))
      /\ FailsUnchanged(draw(game, caller, rnd))
      /\ FailsUnchanged(drawPowerCard(game, caller, rnd))
      /\ \A payload \in Payloads : FailsUnchanged(playPowerCard(game, caller, payload, rnd))

\* C5 happens: a player who is not current holds a card that the rules would let
\* the current player play, in a game nobody has won
C5_Witness ==
  /\ Started /\ game.winnerId = Null /\ steps >= 2
  /\ \E seat \in 1..Len(game.players) :
       /\ seat # Cur(game)
       /\ \E i \in 1..Len(game.players[seat].hand) :
            canPlayCard(game.players[seat].hand[i], getTopCard(game),
                        game.currentColor, game.drawStack)

\* the card of the actor's hand a client names by cardId (cardId is in the hand)
CardOf(cardId) == Actor.hand[cardIndexOf(Actor.hand, cardId)]

\* the rule C2 states for a card on a top card, a colour in force and a draw stack
C2_Legal(card, topCard, currentColor, drawStack) ==
  IF drawStack > 0 THEN card.value \in {"draw2", "wild4"}
  ELSE card.color = "wild" \/ card.color = currentColor \/ card.value = topCard.value

\* C2: canPlayCard is true exactly when drawStack > 0 and the card is a draw2 or a
\* wild4, or drawStack = 0 and the card is wild, or of the colour in force, or of the
\* top card's value: for every card of the deck on the top card, colour and draw stack
\* of every started game; and every playCard that succeeds while drawStack > 0 plays
\* a draw2 or a wild4.
C2_LegalityPredicate ==
  Started =>
    /\ \A card \in Range(unshuffledDeck) :
         canPlayCard(card, getTopCard(game), game.currentColor, game.drawStack)
           <=> C2_Legal(card, getTopCard(game), game.currentColor, game.drawStack)
    /\ game.drawStack > 0 =>
         \A cardId \in CardChoices(Actor.id) \ {NoCard} :
           \A chosenColor \in ColorChoices(Actor.id, cardId), rnd \in Rnd :
             playCard(game, Actor.id, cardId, chosenColor, rnd).error = ""
               => CardOf(cardId).value \in {"draw2", "wild4"}

\* C3: after start(), drawStack > 0 implies that the top of the discard pile is a
\* draw2 or a wild4.
C3_StackTopIsDrawCard ==
  (Started /\ game.drawStack > 0) => getTopCard(game).value \in {"draw2", "wild4"}

\* C4: after start(), currentColor is one of the real colours and never wild, and a
\* playCard of a wild or wild4 returns only when the chosen colour is a real colour.
C4_CurrentColorIsReal ==
  Started =>
    /\ game.currentColor \in Range(CARD_COLORS)
    /\ \A cardId \in CardChoices(Actor.id) \ {NoCard} :
         \A chosenColor \in ColorChoices(Actor.id, cardId), rnd \in Rnd :
           (CardOf(cardId).color = "wild"
              /\ playCard(game, Actor.id, cardId, chosenColor, rnd).error = "")
             => chosenColor \in Range(CARD_COLORS)

\* the engine the room holds in the next state is the one it holds now (handleStart
\* constructs a new UnoGame and starts it)
SameEngine ==
  /\ room.game /\ room'.game
  /\ ~\E rnd \in Rnd : game' = start(NewGame(room.players), rnd).g

\* C6: once winnerId is non-null every playCard, draw, drawPowerCard and
\* playPowerCard call by anyone throws and leaves the engine unchanged, so does the
\* call a turn-timer expiry makes before the room is reset, and no step of the
\* program changes any part of that engine again.
C6_NoActionAfterWin ==
  /\ [](  (room.game /\ game.winnerId # Null) =>
            /\ \A caller \in Callers, rnd \in Rnd :
                 /\ \A cardId \in AnyCard, chosenColor \in ChosenColors :
                      FailsUnchanged(playCard(game, caller, cardId, chosenColor, rnd))
                 /\ FailsUnchanged(draw(game, caller, rnd))
                 /\ FailsUnchanged(drawPowerCard(game, caller, rnd))
                 /\ \A payload \in Payloads :
                      FailsUnchanged(playPowerCard(game, caller, payload, rnd))
            /\ \A rnd \in Rnd : FailsUnchanged(timeoutCall(game, rnd)))
  /\ [][(room.game /\ game.winnerId # Null /\ SameEngine) => game' = game]_vars

\* C6 happens: a game is won, the room is not yet reset and its turn timer is
\* pending (finishGame is suspended at its await), so the expiry can fire
C6_Witness ==
  room.game /\ game.winnerId # Null /\ room.finishing > 0 /\ turnTimer # NoTimer

\* C7: if pendingPowerDrawPlayerId is non-null then it is the id of the current
\* player, whose isAwaitingPowerDraw is true and whose powerPoints are at least the
\* power-card cost.
C7_PendingPowerDraw ==
  (room.game /\ game.pendingPowerDrawPlayerId # Null) =>
    /\ game.pendingPowerDrawPlayerId = Actor.id
    /\ Actor.isAwaitingPowerDraw
    /\ Actor.powerPoints >= powerCardCost

\* C7 happens: a play has just brought a player of a three-player game to the cost
C7_Witness ==
  /\ room.game /\ game.pendingPowerDrawPlayerId # Null
  /\ Len(game.players) = 3
  /\ Actor.pendingSkipCount # NoSkip

\* C8: while the current player's isAwaitingPowerDraw is true their playCard, draw
\* and playPowerCard calls throw and leave the engine unchanged, their drawPowerCard
\* returns, and the turn stays with them unless that drawPowerCard (made by them or
\* by the turn timer) brings their required draw count to 0.
C8_PowerDrawGating ==
  (Started /\ game.winnerId = Null /\ Actor.isAwaitingPowerDraw) =>
    \A rnd \in Rnd :
      /\ \A cardId \in AnyCard, chosenColor \in ChosenColors :
           FailsUnchanged(playCard(game, Actor.id, cardId, chosenColor, rnd))
      /\ FailsUnchanged(draw(game, Actor.id, rnd))
      /\ \A payload \in Payloads : FailsUnchanged(playPowerCard(game, Actor.id, payload, rnd))
      /\ timeoutCall(game, rnd) = drawPowerCard(game, Actor.id, rnd)
      /\ LET r == drawPowerCard(game, Actor.id, rnd)
         IN /\ r.error = ""
            /\ IF getRequiredPowerDraws(r.g.players[Cur(game)]) > 0
               THEN /\ r.g.currentPlayerIndex = game.currentPlayerIndex
                    /\ r.g.players[Cur(game)].isAwaitingPowerDraw
                    /\ r.g.pendingPowerDrawPlayerId = Actor.id
               ELSE /\ ~r.g.players[Cur(game)].isAwaitingPowerDraw
                    /\ r.g.pendingPowerDrawPlayerId = Null

\* C8 happens: the player who owes the draw holds a card the rules would accept
C8_Witness ==
  /\ Started /\ game.winnerId = Null /\ Actor.isAwaitingPowerDraw
  /\ \E i \in 1..Len(Actor.hand) :
       canPlayCard(Actor.hand[i], getTopCard(game), game.currentColor, game.drawStack)

\* the advance step C9 states for a card played among n players, the direction
\* after the card, and the seat index reached from the actor's seat
C9_Step(card, n) ==
  IF card.value = "skip" \/ (card.value = "reverse" /\ n = 2) THEN 2 ELSE 1

C9_Direction(card) == IF card.value = "reverse" THEN -game.direction ELSE game.direction

C9_Landing(card) ==
  LET n == Len(game.players)
  IN (game.currentPlayerIndex + C9_Step(card, n) * C9_Direction(card) + 2 * n) % n

\* frozen-turn resolution from a seat index: the first index, walking in direction d,
\* whose player is not frozen in the state the card is played in
RECURSIVE C9_FirstUnfrozen(_, _, _)
C9_FirstUnfrozen(index, d, fuel) ==
  IF fuel = 0 \/ game.players[index + 1].frozenForTurns = 0 THEN index
  ELSE C9_FirstUnfrozen((index + d + Len(game.players)) % Len(game.players), d, fuel - 1)

C9_ExpectedCursor(card) ==
  C9_FirstUnfrozen(C9_Landing(card), C9_Direction(card), Len(game.players))

\* C9: after a playCard that returns without a winner exactly one of two things
\* holds: (a) pendingPowerDrawPlayerId is the actor and the cursor has not moved, or
\* (b) nothing is pending and the cursor is where the card's advance step (1; 2 for
\* skip; 2 for reverse with exactly 2 players) from the actor's seat in the direction
\* after the card, modulo the number of players, followed by frozen-turn resolution,
\* puts it.  With exactly 2 players a reverse leaves the cursor where a skip in its
\* place would.
C9_TurnAfterPlay ==
  (Started /\ game.winnerId = Null) =>
    \A cardId \in CardChoices(Actor.id) \ {NoCard} :
      \A chosenColor \in ColorChoices(Actor.id, cardId), rnd \in Rnd :
        LET r == playCard(game, Actor.id, cardId, chosenColor, rnd)
            card == CardOf(cardId)
            index == cardIndexOf(Actor.hand, cardId)
            a == /\ r.g.pendingPowerDrawPlayerId = Actor.id
                 /\ r.g.currentPlayerIndex = game.currentPlayerIndex
            b == /\ r.g.pendingPowerDrawPlayerId = Null
                 /\ r.g.currentPlayerIndex = C9_ExpectedCursor(card)
            asSkip == resolvePlay([game EXCEPT !.players[Cur(game)].hand[index].value = "skip"],
                                  Cur(game), index, card.color, rnd)
        IN (r.error = "" /\ r.winnerId = Null) =>
             /\ (a \/ b) /\ ~(a /\ b)
             /\ (card.value = "reverse" /\ Len(game.players) = 2) =>
                  r.g.currentPlayerIndex = asSkip.g.currentPlayerIndex

\* C9 happens: a card can be played, without winning and without owing a power draw,
\* whose advance step lands on a frozen player
C9_Witness ==
  /\ Started /\ game.winnerId = Null
  /\ \E cardId \in CardChoices(Actor.id) \ {NoCard} :
       \E chosenColor \in ColorChoices(Actor.id, cardId) :
         LET r == playCard(game, Actor.id, cardId, chosenColor, 0)
         IN /\ r.error = "" /\ r.winnerId = Null /\ ~r.powerDrawRequired
            /\ game.players[C9_Landing(CardOf(cardId)) + 1].frozenForTurns > 0

\* the power points and the addition to drawStack C10 states for a card value
C10_Points(value) ==
  CASE value \in {"skip", "reverse"} -> 1
    [] value \in {"draw2", "wild"} -> 2
    [] value = "wild4" -> 3
    [] OTHER -> 0

C10_Added(value) ==
  CASE value = "draw2" -> 2
    [] value = "wild4" -> 4
    [] OTHER -> 0

\* what C10 states of every playCard that returns, but for drawStack and powerPoints
C10_Moves(r, card, index, chosenColor) ==
  /\ r.g.players[Cur(game)].hand = spliceOut(Actor.hand, index)
  /\ getTopCard(r.g) = card
  /\ r.g.currentColor = (IF card.color = "wild" THEN chosenColor ELSE card.color)
  /\ r.g.direction = (IF card.value = "reverse" THEN -game.direction ELSE game.direction)

Min(a, b) == IF a <= b THEN a ELSE b

\* the cards a draw can still take: the draw pile and the discard pile but its top
Available == Len(game.deck) + (IF Len(game.discardPile) > 0 THEN Len(game.discardPile) - 1 ELSE 0)

\* the seat index one step from the actor in the direction in force, then past the
\* frozen players
C11_ExpectedCursor ==
  LET n == Len(game.players)
  IN C9_FirstUnfrozen((game.currentPlayerIndex + game.direction + 2 * n) % n,
                      game.direction, n)

\* what C11 states of a draw that returns, but for the number of cards received
C11_Rest(r) ==
  /\ r.g.drawStack = 0
  /\ ~r.g.players[Cur(game)].hasCalledUno
  /\ getTopCard(r.g) = getTopCard(game)
  /\ r.g.currentColor = game.currentColor
  /\ r.g.direction = game.direction
  /\ r.g.currentPlayerIndex = C11_ExpectedCursor
  /\ SubSeq(r.g.players[Cur(game)].hand, 1, Len(Actor.hand)) = Actor.hand

\* C11 as stated: a draw by the current player who owes no power draw returns; with
\* drawStack = k > 0 the player receives k cards (fewer only when both piles are
\* exhausted) and with drawStack = 0 exactly 1 card; drawStack is 0 afterwards,
\* hasCalledUno is cleared, the discard top and currentColor are unchanged and the
\* turn advances by 1 step in the current direction, then past the frozen players.
C11_Draw_AsStated ==
  (Started /\ game.winnerId = Null /\ ~Actor.isAwaitingPowerDraw) =>
    \A rnd \in Rnd :
      LET r == draw(game, Actor.id, rnd)
      IN /\ r.error = ""
         /\ C11_Rest(r)
         /\ Len(r.g.players[Cur(game)].hand) - Len(Actor.hand) =
              (IF game.drawStack > 0 THEN Min(game.drawStack, Available) ELSE 1)

\* C11: a draw by the current player who owes no power draw returns; the player
\* receives drawStack cards when drawStack > 0 and 1 card when it is 0, or as many
\* as the two piles still hold when they hold fewer (none when only the discard top
\* is left); drawStack is 0 afterwards, hasCalledUno is cleared, the discard top and
\* currentColor are unchanged and the turn advances by 1 step in the current
\* direction, then past the frozen players.
C11_Draw ==
  (Started /\ game.winnerId = Null /\ ~Actor.isAwaitingPowerDraw) =>
    \A rnd \in Rnd :
      LET r == draw(game, Actor.id, rnd)
      IN /\ r.error = ""
         /\ C11_Rest(r)
         /\ Len(r.g.players[Cur(game)].hand) - Len(Actor.hand) =
              Min(IF game.drawStack > 0 THEN game.drawStack ELSE DEFAULT_DRAW_COUNT, Available)

\* C11 happens: the current player faces a draw stack that the draw pile cannot pay
\* without being rebuilt from the discard pile
C11_Witness ==
  /\ Started /\ game.winnerId = Null /\ ~Actor.isAwaitingPowerDraw /\ steps < MaxSteps
  /\ game.drawStack > Len(game.deck)
  /\ Available >= game.drawStack

\* the seat index `stepCount` steps from the actor in the direction in force
C12_Landing(stepCount) ==
  LET n == Len(game.players)
  IN (game.currentPlayerIndex + stepCount * game.direction + 2 * n) % n

\* C12: a playCard that requires a power draw holds the turn and keeps the advance
\* step of its card (1; 2 for skip; 2 for reverse with exactly 2 players) in
\* pendingSkipCount; while the draw is owed, the kept step is the step of the card
\* on top of the discard pile; and the drawPowerCard that brings the required draws
\* to 0 clears isAwaitingPowerDraw and pendingPowerDrawPlayerId and moves the cursor
\* by the kept step (1 if none is kept) in the direction the card left, then past
\* the frozen players, the first of whom pays the draw stack the card left.
C12_DeferredAdvance ==
  (Started /\ game.winnerId = Null) =>
    /\ \A cardId \in CardChoices(Actor.id) \ {NoCard} :
         \A chosenColor \in ColorChoices(Actor.id, cardId), rnd \in Rnd :
           LET r == playCard(game, Actor.id, cardId, chosenColor, rnd)
           IN (r.error = "" /\ r.powerDrawRequired) =>
                /\ r.g.currentPlayerIndex = game.currentPlayerIndex
                /\ r.g.players[Cur(game)].isAwaitingPowerDraw
                /\ r.g.players[Cur(game)].pendingSkipCount =
                     C9_Step(CardOf(cardId), Len(game.players))
    /\ Actor.isAwaitingPowerDraw =>
         /\ Actor.pendingSkipCount = C9_Step(getTopCard(game), Len(game.players))
         /\ \A rnd \in Rnd :
              LET r == drawPowerCard(game, Actor.id, rnd)
                  stepCount == IF Actor.pendingSkipCount = NoSkip THEN 1
                               ELSE Actor.pendingSkipCount
                  landing == C12_Landing(stepCount)
              IN (r.error = "" /\ getRequiredPowerDraws(r.g.players[Cur(game)]) = 0) =>
                   /\ ~r.g.players[Cur(game)].isAwaitingPowerDraw
                   /\ r.g.pendingPowerDrawPlayerId = Null
                   /\ r.g.players[Cur(game)].pendingSkipCount = NoSkip
                   /\ r.g.direction = game.direction
                   /\ r.g.currentPlayerIndex =
                        C9_FirstUnfrozen(landing, game.direction, Len(game.players))
                   /\ r.g.drawStack =
                        (IF game.players[landing + 1].frozenForTurns > 0 THEN 0
                         ELSE game.drawStack)

\* C12 happens: the player who owes the last power draw played a card whose advance
\* step is 2, among three players
C12_Witness ==
  /\ Started /\ game.winnerId = Null /\ Actor.isAwaitingPowerDraw /\ steps < MaxSteps
  /\ Actor.pendingSkipCount = 2
  /\ Len(game.players) = 3
  /\ getRequiredPowerDraws(Actor) = 1

\* what one step of the same game does to the power meter of the player in `seat`
C13_MeterStep(seat) ==
  LET before == game.players[seat]
      after == game'.players[seat]
      change == after.powerPoints - before.powerPoints
  IN /\ \/ change = 0
        \/ /\ change = -powerCardCost
           /\ seat = Cur(game)
           /\ Len(after.powerCards) = Len(before.powerCards) + 1
        \/ /\ change > 0
           /\ seat = Cur(game)
           /\ getTopCard(game') # getTopCard(game)
           /\ change = ACTION_CARD_POINTS(getTopCard(game').value)
     /\ Len(after.powerCards) > Len(before.powerCards) => change = -powerCardCost

\* C13: every successful drawPowerCard adds exactly one power card to the actor's
\* inventory and takes exactly powerCardCost (4) points from the actor, the clamp to
\* 0 changing nothing; powerPoints are never negative; and the draws a player has
\* performed equal floor(points earned / 4) whenever the player does not owe a draw.
\* The last part is checked in its inductive form: the meter moves only by the
\* points of a played card or by -4 together with one new power card, so
\* powerPoints = earned - 4 * draws, and draws = floor(earned / 4) is
\* 0 <= powerPoints < 4, required of every player who is not awaiting a power draw.
C13_PowerMeter ==
  /\ [](  Started =>
            /\ \A seat \in 1..Len(game.players) :
                 /\ game.players[seat].powerPoints >= 0
                 /\ ~game.players[seat].isAwaitingPowerDraw =>
                       game.players[seat].powerPoints < powerCardCost
            /\ \A caller \in Callers, rnd \in Rnd :
                 LET r == drawPowerCard(game, caller, rnd)
                 IN r.error = "" =>
                      /\ caller = Actor.id
                      /\ Len(r.g.players[Cur(game)].powerCards) =
                           Len(Actor.powerCards) + 1
                      /\ r.g.players[Cur(game)].powerPoints =
                           Actor.powerPoints - powerCardCost)
  /\ [][(Started /\ SameEngine) =>
          \A seat \in 1..Len(game.players) : C13_MeterStep(seat)]_vars

\* C13 happens: a player who has drawn a power card keeps the remainder of the
\* points, and no longer owes a draw
C13_Witness ==
  /\ Started
  /\ \E seat \in 1..Len(game.players) :
       /\ Len(game.players[seat].powerCards) >= 1
       /\ game.players[seat].powerPoints \in 1..(powerCardCost - 1)
       /\ ~game.players[seat].isAwaitingPowerDraw

\* the seat indexes frozen-turn resolution passes over from a landing index: the run
\* of frozen players that ends at the first player who is not frozen
RECURSIVE C14_Forfeiting(_, _, _)
C14_Forfeiting(index, d, fuel) ==
  IF fuel = 0 \/ game.players[index + 1].frozenForTurns = 0 THEN {}
  ELSE {index} \cup
       C14_Forfeiting((index + d + Len(game.players)) % Len(game.players), d, fuel - 1)

\* a call that only a freeze can have changed a frozenForTurns counter in
C14_NoEntry(r) ==
  \A seat \in 1..Len(game.players) :
    r.g.players[seat].frozenForTurns = game.players[seat].frozenForTurns

\* what a call that advanced the turn did to the players it landed on: `landing` is
\* the index the advance step reaches, `stack` the draw stack the advance starts
\* with, `paid` the cards the first frozen player receives for it
C14_Entries(r, landing, stack, paid) ==
  LET n == Len(game.players)
      forfeiting == C14_Forfeiting(landing, r.g.direction, n)
  IN /\ \A seat \in 1..n :
          r.g.players[seat].frozenForTurns =
            game.players[seat].frozenForTurns - (IF seat - 1 \in forfeiting THEN 1 ELSE 0)
     /\ r.g.currentPlayerIndex \notin forfeiting
     /\ r.g.currentPlayerIndex = C9_FirstUnfrozen(landing, r.g.direction, n)
     /\ forfeiting # {} =>
          /\ r.g.drawStack = 0
          /\ Len(r.g.players[landing + 1].hand) =
               Len(game.players[landing + 1].hand) + paid
          /\ \A index \in forfeiting \ {landing} :
               r.g.players[index + 1].hand = game.players[index + 1].hand

\* the freeze, and the entries of every call that advances the turn; Pays(stack,
\* available) is the number of cards the first frozen player is to receive
C14_FreezeWith(Pays(_, _)) ==
  Started =>
    /\ Actor.frozenForTurns = 0
    /\ \A seat \in 1..Len(game.players) : game.players[seat].frozenForTurns >= 0
    /\ game.winnerId = Null =>
         /\ \A payload \in Payloads, rnd \in Rnd :
              LET r == playPowerCard(game, Actor.id, payload, rnd)
                  targetSeat == SeatOf(game, payload.targetPlayerId)
              IN r.error = "" =>
                   IF Actor.powerCards[payload.cardId] = "freeze"
                   THEN /\ targetSeat # 0 /\ targetSeat # Cur(game)
                        /\ \A seat \in 1..Len(game.players) :
                             r.g.players[seat].frozenForTurns =
                               game.players[seat].frozenForTurns +
                                 (IF seat = targetSeat THEN 2 ELSE 0)
                   ELSE C14_NoEntry(r)
         /\ \A cardId \in CardChoices(Actor.id) \ {NoCard} :
              \A chosenColor \in ColorChoices(Actor.id, cardId), rnd \in Rnd :
                LET r == playCard(game, Actor.id, cardId, chosenColor, rnd)
                    card == CardOf(cardId)
                    stack == game.drawStack + C10_Added(card.value)
                IN r.error = "" =>
                     IF r.winnerId # Null \/ r.powerDrawRequired THEN C14_NoEntry(r)
                     ELSE C14_Entries(r, C9_Landing(card), stack,
                                      Pays(stack, Len(game.deck) + Len(game.discardPile)))
         /\ \A rnd \in Rnd :
              /\ LET r == draw(game, Actor.id, rnd)
                 IN r.error = "" => C14_Entries(r, C12_Landing(1), 0, 0)
              /\ LET r == drawPowerCard(game, Actor.id, rnd)
                     stepCount == IF Actor.pendingSkipCount = NoSkip THEN 1
                                  ELSE Actor.pendingSkipCount
                 IN r.error = "" =>
                      IF getRequiredPowerDraws(r.g.players[Cur(game)]) > 0
                      THEN C14_NoEntry(r)
                      ELSE C14_Entries(r, C12_Landing(stepCount), game.drawStack,
                                       Pays(game.drawStack, Available))

C14_WholeStack(stack, available) == stack

C14_StackOrLess(stack, available) == Min(stack, available)

\* C14 as stated: a freeze adds 2 to the frozenForTurns of its target, another
\* existing player; every entry of the cursor on a player with frozenForTurns > 0
\* takes 1 from that counter, gives that player the whole draw stack (drawStack
\* becomes 0) and moves the cursor one more step, the frozen player never being the
\* current player of a state.
C14_Freeze_AsStated == C14_FreezeWith(C14_WholeStack)

\* C14: as above, the frozen player receiving the draw stack or, when the draw pile
\* and the discard pile below its top hold fewer cards, all of those.
C14_Freeze == C14_FreezeWith(C14_StackOrLess)

\* C14 happens: the card the current player can play lands on a frozen player, with
\* a draw stack to pay
C14_Witness ==
  /\ Started /\ game.winnerId = Null
  /\ \E cardId \in CardChoices(Actor.id) \ {NoCard} :
       \E chosenColor \in ColorChoices(Actor.id, cardId), rnd \in Rnd :
         LET r == playCard(game, Actor.id, cardId, chosenColor, rnd)
             landing == C9_Landing(CardOf(cardId))
         IN /\ r.error = "" /\ r.winnerId = Null /\ ~r.powerDrawRequired
            /\ game.players[landing + 1].frozenForTurns > 0
            /\ game.drawStack + C10_Added(CardOf(cardId).value) > 0

\* the messages playPowerCard throws after it took the power card out of the inventory
C15_ThrownWithCardOut ==
  {"Select another player to freeze", "Select another player to swap with",
   "Player not found", "Select a valid color to discard",
   "You do not have any cards of that color"}

\* a call either returned or threw and left the whole engine as it was
C15_Atomic(r) == r.error # "" => r.g = game

\* C15: every playCard, draw, drawPowerCard and playPowerCard that fails, whoever
\* calls it and whatever the reason, leaves the whole engine state as it was before
\* the call; a playPowerCard that fails after taking the power card out of the
\* inventory has put it back at its position.
C15_FailureAtomicity ==
  Started =>
    /\ \A caller \in Callers, rnd \in Rnd :
         /\ \A cardId \in AnyCard, chosenColor \in ChosenColors :
              C15_Atomic(playCard(game, caller, cardId, chosenColor, rnd))
         /\ C15_Atomic(draw(game, caller, rnd))
         /\ C15_Atomic(drawPowerCard(game, caller, rnd))
         /\ \A payload \in Payloads :
              LET r == playPowerCard(game, caller, payload, rnd)
              IN /\ C15_Atomic(r)
                 /\ r.error \in C15_ThrownWithCardOut =>
                      r.g.players[Cur(game)].powerCards = Actor.powerCards
    /\ \A rnd \in Rnd : C15_Atomic(timeoutCall(game, rnd))

\* C15 happens: the current player holds a power card whose play can fail after the
\* card was taken out of the inventory, and a regular card whose play is refused
C15_Witness ==
  /\ Started /\ game.winnerId = Null /\ steps < MaxSteps
  /\ \E payload \in Payloads, rnd \in Rnd :
       playPowerCard(game, Actor.id, payload, rnd).error \in C15_ThrownWithCardOut
  /\ \E cardId \in CardChoices(Actor.id) \ {NoCard} :
       playCard(game, Actor.id, cardId, "red", 0).error = "Card cannot be played"

\* C16: a playPowerCard that returns and leaves the acting player with an empty hand
\* sets winnerId to that player, so that in every state without a winner every
\* player holds at least one card.
C16_EmptyHandWins ==
  (Started /\ game.winnerId = Null) =>
    /\ \A seat \in 1..Len(game.players) : Len(game.players[seat].hand) >= 1
    /\ \A payload \in Payloads, rnd \in Rnd :
         LET r == playPowerCard(game, Actor.id, payload, rnd)
         IN (r.error = "" /\ Len(r.g.players[Cur(game)].hand) = 0) =>
              r.g.winnerId = Actor.id

\* C17: a playCard that empties the actor's hand sets winnerId to the actor and
\* returns it, and applies nothing else of the card: direction, drawStack, the
\* actor's powerPoints, the pending power draw and the turn cursor are as before.
C17_WinCheckFirst ==
  (Started /\ game.winnerId = Null) =>
    \A cardId \in CardChoices(Actor.id) \ {NoCard} :
      \A chosenColor \in ColorChoices(Actor.id, cardId), rnd \in Rnd :
        LET r == playCard(game, Actor.id, cardId, chosenColor, rnd)
            after == r.g.players[Cur(game)]
        IN (r.error = "" /\ Len(after.hand) = 0) =>
             /\ r.g.winnerId = Actor.id
             /\ r.winnerId = Actor.id
             /\ r.g.direction = game.direction
             /\ r.g.drawStack = game.drawStack
             /\ after.powerPoints = Actor.powerPoints
             /\ ~r.powerDrawRequired
             /\ after.isAwaitingPowerDraw = Actor.isAwaitingPowerDraw
             /\ after.pendingSkipCount = Actor.pendingSkipCount
             /\ r.g.pendingPowerDrawPlayerId = game.pendingPowerDrawPlayerId
             /\ r.g.currentPlayerIndex = game.currentPlayerIndex

\* what every returned playPowerCard leaves alone, the discard pile apart
C18_Frame(r) ==
  /\ r.g.currentPlayerIndex = game.currentPlayerIndex
  /\ r.g.direction = game.direction
  /\ r.g.drawStack = game.drawStack
  /\ r.g.currentColor = game.currentColor
  /\ r.g.winnerId = game.winnerId
  /\ r.g.pendingPowerDrawPlayerId = game.pendingPowerDrawPlayerId
  /\ \A seat \in 1..Len(game.players) :
       /\ r.g.players[seat].powerPoints = game.players[seat].powerPoints
       /\ r.g.players[seat].isAwaitingPowerDraw = game.players[seat].isAwaitingPowerDraw
       /\ r.g.players[seat].pendingSkipCount = game.players[seat].pendingSkipCount
  /\ ~r.powerDrawRequired
  /\ \A rnd \in Rnd : draw(r.g, Actor.id, rnd).error = ""

\* C18 as stated: a playPowerCard that returns leaves the turn cursor, direction,
\* drawStack, currentColor, the discard pile, every player's powerPoints and
\* pendingPowerDrawPlayerId as they were, and the actor can still draw.
C18_PowerCardFrame_AsStated ==
  (Started /\ game.winnerId = Null) =>
    \A payload \in Payloads, rnd \in Rnd :
      LET r == playPowerCard(game, Actor.id, payload, rnd)
      IN r.error = "" => (C18_Frame(r) /\ r.g.discardPile = game.discardPile)

\* C18: as above, with the top of the discard pile as it was; the pile itself is as
\* it was unless the card is a cardRush, which may run the draw pile out and then
\* moves the cards below the top into the draw pile.
C18_PowerCardFrame ==
  (Started /\ game.winnerId = Null) =>
    \A payload \in Payloads, rnd \in Rnd :
      LET r == playPowerCard(game, Actor.id, payload, rnd)
      IN r.error = "" =>
           /\ C18_Frame(r)
           /\ getTopCard(r.g) = getTopCard(game)
           /\ \/ r.g.discardPile = game.discardPile
              \/ /\ Actor.powerCards[payload.cardId] = "cardRush"
                 /\ Len(game.deck) < 2 * (Len(game.players) - 1)
                 /\ r.g.discardPile = <<getTopCard(game)>>

\* C18 happens: the current player can play a cardRush that runs the draw pile out
C18_Witness ==
  /\ Started /\ game.winnerId = Null
  /\ \E payload \in Payloads, rnd \in Rnd :
       LET r == playPowerCard(game, Actor.id, payload, rnd)
       IN /\ r.error = ""
          /\ Actor.powerCards[payload.cardId] = "cardRush"
          /\ r.g.discardPile # game.discardPile

\* the payloads the actor can send in the engine state g
C19_PayloadsIn(g) ==
  [cardId : 0..Len(g.players[Cur(game)].powerCards), targetPlayerId : Targets,
   color : ChosenColors]

\* a call that entered no turn: every flag is as it was
C19_NoEntry(r) ==
  \A seat \in 1..Len(game.players) :
    r.g.players[seat].hasPlayedPowerCardThisTurn =
      game.players[seat].hasPlayedPowerCardThisTurn

\* a call that advanced the turn to `landing`: the flag is cleared for the players
\* the cursor entered (the frozen ones it passed over and the new current player)
\* and kept for everyone else
C19_Entries(r, landing) ==
  LET n == Len(game.players)
      entered == C14_Forfeiting(landing, r.g.direction, n) \cup {r.g.currentPlayerIndex}
  IN \A seat \in 1..n :
       r.g.players[seat].hasPlayedPowerCardThisTurn =
         (IF seat - 1 \in entered THEN FALSE
          ELSE game.players[seat].hasPlayedPowerCardThisTurn)

C20_CalledUno_AsStated ==
  Started =>
    \A seat \in 1..Len(game.players) :
      game.players[seat].hasCalledUno <=> (Len(game.players[seat].hand) = 1)

\* C20: in every state and for every player, hasCalledUno is true only if the
\* player's hand holds exactly 1 card; a playCard sets it for the actor exactly when
\* it leaves them 1 card and the turn does not come back to them, and every turn
\* entry clears it for the player entering, whatever their hand.
C20_CalledUno ==
  Started =>
    /\ \A seat \in 1..Len(game.players) :
         game.players[seat].hasCalledUno => Len(game.players[seat].hand) = 1
    /\ game.winnerId = Null =>
         /\ \A cardId \in CardChoices(Actor.id) \ {NoCard} :
              \A chosenColor \in ColorChoices(Actor.id, cardId), rnd \in Rnd :
                LET r == playCard(game, Actor.id, cardId, chosenColor, rnd)
                    after == r.g.players[Cur(game)]
                    held == r.winnerId # Null \/ r.powerDrawRequired
                IN r.error = "" =>
                     /\ after.hasCalledUno <=>
                          /\ Len(after.hand) = 1
                          /\ held \/ r.g.currentPlayerIndex # game.currentPlayerIndex
                     /\ ~held => ~getCurrentPlayer(r.g).hasCalledUno
         /\ \A rnd \in Rnd :
              LET r == draw(game, Actor.id, rnd)
              IN r.error = "" =>
                   /\ ~r.g.players[Cur(game)].hasCalledUno
                   /\ ~getCurrentPlayer(r.g).hasCalledUno

\* C20 happens: one player has the flag set, holding 1 card, and the current player
\* holds 1 card with the flag cleared
C20_Witness ==
  /\ Started /\ game.winnerId = Null
  /\ Len(Actor.hand) = 1 /\ ~Actor.hasCalledUno
  /\ \E seat \in 1..Len(game.players) :
       game.players[seat].hasCalledUno /\ Len(game.players[seat].hand) = 1

\* the cards of a sequence as a set (card ids are unique)
C21_Cards(cards) == {cards[i] : i \in 1..Len(cards)}

\* C21: when a card is requested with the draw pile empty, all discard cards except
\* the top are moved into the draw pile and the discard pile keeps exactly its
\* previous top; the discard pile is never empty after start() and a draw never
\* changes its top; a draw that asks for more cards than the two piles hold below
\* the discard top returns without error with those cards only (none when only the
\* top is left), the turn advances and drawStack is 0.
C21_DeckReplenishment ==
  Started =>
    /\ Len(game.discardPile) >= 1
    /\ Len(game.deck) = 0 =>
         \A rnd \in Rnd :
           LET g1 == ensureDeckSize(game, rnd)
           IN /\ g1.discardPile = <<getTopCard(game)>>
              /\ Len(g1.deck) = Len(game.discardPile) - 1
              /\ C21_Cards(g1.deck) = C21_Cards(game.discardPile) \ {getTopCard(game)}
    /\ (game.winnerId = Null /\ ~Actor.isAwaitingPowerDraw) =>
         \A rnd \in Rnd :
           LET r == draw(game, Actor.id, rnd)
               requested == IF game.drawStack > 0 THEN game.drawStack ELSE DEFAULT_DRAW_COUNT
               received == Len(r.g.players[Cur(game)].hand) - Len(Actor.hand)
           IN /\ r.error = ""
              /\ getTopCard(r.g) = getTopCard(game)
              /\ Len(r.g.discardPile) >= 1
              /\ (Len(game.deck) < requested /\ Len(game.deck) < received) =>
                   r.g.discardPile = <<getTopCard(game)>>
              /\ Available < requested =>
                   /\ received = Available
                   /\ Len(r.g.deck) = 0
                   /\ r.g.drawStack = 0
                   /\ r.g.currentPlayerIndex = C11_ExpectedCursor

\* C21 happens: in a game of two, the current player is to draw with an empty draw
\* pile and nothing but the top card in the discard pile
C21_Witness ==
  /\ Started /\ game.winnerId = Null /\ ~Actor.isAwaitingPowerDraw
  /\ Len(game.deck) = 0 /\ Len(game.discardPile) = 1
  /\ Len(game.players) = 2

\* the engine start() leaves, for the players of the room: hands of InitialHandSize
\* cards (7 in the program, whose deck of 108 is DeckSize here), one discard card
C22_Fresh(g) ==
  LET n == Len(room.players)
      top == getTopCard(g)
  IN /\ g.hasStarted
     /\ Len(g.players) = n
     /\ \A seat \in 1..n :
          /\ g.players[seat].id = room.players[seat]
          /\ Len(g.players[seat].hand) = InitialHandSize
          /\ g.players[seat].powerPoints = 0
          /\ g.players[seat].powerCards = <<>>
          /\ g.players[seat].frozenForTurns = 0
          /\ ~g.players[seat].isAwaitingPowerDraw
          /\ ~g.players[seat].hasPlayedPowerCardThisTurn
          /\ ~g.players[seat].hasCalledUno
          /\ g.players[seat].pendingSkipCount = NoSkip
     /\ Len(g.discardPile) = 1
     /\ top.color # "wild"
     /\ Len(g.deck) = DeckSize - InitialHandSize * n - 1
     /\ Conserved(g)
     /\ g.currentColor = top.color
     /\ g.direction = 1
     /\ g.drawStack = 0
     /\ g.currentPlayerIndex = 0
     /\ g.winnerId = Null
     /\ g.pendingPowerDrawPlayerId = Null

\* C22: start() on a new engine over the N players of the room deals every player
\* a full hand, opens the discard pile with one card that is not wild, leaves the
\* rest of the deck in the draw pile, sets currentColor to that card's colour,
\* direction +1, drawStack 0 and the cursor at seat 0, with all power points,
\* inventories, frozen counters and pending flags zero or empty, whatever the
\* starting card is (its effect is not applied); start() on a started engine
\* changes nothing.
C22_Start ==
  /\ \A rnd \in Rnd :
       LET r == start(NewGame(room.players), rnd)
       IN r.error = "" => C22_Fresh(r.g)
  /\ Started =>
       \A rnd \in Rnd : start(game, rnd).error = "" /\ start(game, rnd).g = game

\* C22 happens: a game has just been started on an action card
C22_Witness ==
  /\ Started /\ C22_Fresh(game)
  /\ getTopCard(game).value \in {"skip", "reverse", "draw2"}
  /\ Len(room.players) = 3

\* C23: from the winning play until the room is reset nothing else of the room is
\* processed: while finishGame is suspended on the outcome report the only step that
\* changes the room or the engine is its resumption, which clears the engine that
\* holds the winner and sets the status to waiting.
C23_RunToCompletion ==
  [][room.finishing > 0 =>
       /\ room'.finishing = room.finishing - 1
       /\ game.winnerId # Null
       /\ ~room'.game /\ room'.status = "waiting"]_vars

\* the specification with the outcome report settling: recordGameOutcome resolves or
\* rejects, and either way finishGame resumes after its await
FairSpec == Spec /\ WF_vars(finishGameResume)

\* the accounts the players of the room can have when a game finishes
C24_UserIds == [1..Len(room.players) -> {Null, "u1", "u2"}]

\* the room after the cleanup of finishGame
C24_Reset ==
  /\ room.status = "waiting"
  /\ ~room.game
  /\ game = NoGame
  /\ turnTimer = NoTimer
  /\ \A i \in 1..Len(room.players) :
       room.cache[i].hand = <<>> /\ room.cache[i].powerCards = <<>>

\* C24: a play that produces a winner starts exactly one finishGame, which either
\* runs to its end at once or waits for the outcome report, and whether the report
\* resolves or rejects the room reaches status waiting with no engine, every cached
\* hand and power inventory empty and no turn timer; each pending finishGame ends
\* exactly once, in its cleanup step; the report lists exactly the players who have
\* a userId, in seat order, with didWin true only for the winner, and is awaited
\* only when it lists someone.
C24_GameEndCleanup ==
  /\ [](  (room.game /\ game.winnerId # Null) =>
            /\ room.finishing > 0
            /\ \A userIds \in C24_UserIds :
                 LET outcomes == finishGameOutcomes(room, userIds, game.winnerId, 1)
                 IN /\ {outcomes[k].userId : k \in 1..Len(outcomes)} =
                         {userIds[i] : i \in 1..Len(room.players)} \ {Null}
                    /\ Len(outcomes) =
                         Cardinality({i \in 1..Len(room.players) : userIds[i] # Null})
                    /\ \A k \in 1..Len(outcomes) :
                         outcomes[k].didWin =>
                           \E i \in 1..Len(room.players) :
                             /\ room.players[i] = game.winnerId
                             /\ userIds[i] = outcomes[k].userId)
  /\ [][/\ (room.game /\ game.winnerId = Null /\ room'.game /\ game'.winnerId # Null) =>
             room'.finishing = room.finishing + 1
        /\ (room.game /\ ~room'.game) =>
             (C24_Reset' /\ room'.finishing \in {room.finishing, room.finishing - 1})
        /\ room'.finishing # room.finishing =>
             \/ room'.finishing = room.finishing + 1 /\ game'.winnerId # Null
             \/ room'.finishing = room.finishing - 1 /\ C24_Reset']_vars
  /\ (room.finishing > 0) ~> C24_Reset

\* C24 happens: a game has a winner and the room waits for the outcome report
C24_Witness ==
  /\ room.game /\ game.winnerId # Null /\ room.finishing = 1
  /\ room.status = "in-progress" /\ turnTimer # NoTimer

\* every player of the room leaves, in seat order: the room and the timer at the end
RECURSIVE C25_AllLeave(_, _)
C25_AllLeave(rm, timer) ==
  IF ~rm.registered \/ rm.players = <<>> THEN [rm |-> rm, timer |-> timer]
  ELSE LET r == leaveRoomOf(rm, timer, rm.players[1]) IN C25_AllLeave(r.rm, r.timer)

C25_Pending ==
  room.registered /\ room.status = "in-progress" /\ room.game /\ turnTimer # NoTimer

\* at expiry the engine is called for the current player alone: a forced power draw
\* if they owe one, which succeeds, and a draw otherwise; a new timer follows
C25_Expiry ==
  C25_Pending =>
    \A rnd \in Rnd :
      LET cur == getCurrentPlayer(game)
          r == timeoutCall(game, rnd)
      IN /\ cur.isAwaitingPowerDraw =>
              /\ r.error = ""
              /\ Len(r.g.players[Cur(game)].powerCards) > Len(cur.powerCards)
              /\ r.g.players[Cur(game)].hand = cur.hand
         /\ (~cur.isAwaitingPowerDraw /\ r.error = "") =>
              /\ r.g.players[Cur(game)].powerCards = cur.powerCards
              /\ Len(r.g.players[Cur(game)].hand) >= Len(cur.hand)
              /\ SubSeq(r.g.players[Cur(game)].hand, 1, Len(cur.hand)) = cur.hand
         /\ \A i \in 1..Len(game.players) :
              i # Cur(game) =>
                /\ r.g.players[i].hand = game.players[i].hand
                /\ r.g.players[i].powerCards = game.players[i].powerCards
         /\ scheduleTurnTimer(room, steps + 1) = steps + 1

\* a handler run that played a power card: the only one that takes a power card
\* from an inventory
C25_PowerCardPlayed ==
  \E i \in 1..Len(game.players) :
    i <= Len(game'.players) /\ Len(game'.players[i].powerCards) < Len(game.players[i].powerCards)

C26_Matching(rawName) ==
  {i \in 1..Len(room.players) :
     ~room.connected[i] /\ toLowerCase(room.names[i]) = toLowerCase(trim(rawName))}

\* a disconnect clears the connected mark of its seat and nothing else of the room,
\* but for the host of a waiting room
C26_Disconnect ==
  \A playerId \in Connections :
    LET d == disconnect(room, playerId)
    IN /\ [d EXCEPT !.hostId = room.hostId] =
            [room EXCEPT !.connected[RoomSeatOf(room, playerId)] = FALSE]
       /\ d.hostId # room.hostId => room.status = "waiting" /\ room.hostId = playerId

\* a join under the name of a disconnected player takes that player's seat: the room
\* is as it was but for the connected mark, and with a game the socket gets the game
\* with the engine's seat order and its own hand, and its power state
C26_Rejoin ==
  \A rawName \in JoinNames :
    \A i \in C26_Matching(rawName) :
      LET r == joinRoom(room, game, "room01", rawName)
          player == game.players[SeatOf(game, room.players[i])]
      IN /\ r.success
         /\ r.rm = [room EXCEPT !.connected[i] = TRUE]
         /\ r.sent[1] = [event |-> "playerIdentified", playerId |-> room.players[i]]
         /\ room.game =>
              /\ \E k \in 1..Len(r.sent) :
                   r.sent[k] = [event |-> "gameStarted",
                                players |-> [s \in 1..Len(game.players) |->
                                               game.players[s].id],
                                cards |-> player.hand]
              /\ \E k \in 1..Len(r.sent) :
                   r.sent[k] = [event |-> "powerStateUpdate",
                                points |-> player.powerPoints,
                                cards |-> player.powerCards,
                                requiredDraws |-> getRequiredPowerDraws(player)]

\* C26: a disconnect only marks the player not connected (and hands a waiting room to
\* another host); the engine and the seats stay as they are.  A later join whose name
\* matches the disconnected player ignoring case rebinds that seat, in a room that is
\* in progress or full as well: same player id, same seat order, same hand and power
\* state, no new seat, and with a game running the socket receives the game start
\* with its current hand and its power state.
C26_DisconnectAndRejoin ==
  /\ [](C26_Disconnect /\ C26_Rejoin)
  /\ [][(\E i \in 1..Len(room.players) :
           /\ Len(room'.players) = Len(room.players)
           /\ room.connected[i] # room'.connected[i])
        => /\ game' = game
           /\ turnTimer' = turnTimer
           /\ room' = [room EXCEPT !.connected = room'.connected,
                                   !.hostId = room'.hostId]]_vars

C26_Witness ==
  /\ room.status = "in-progress" /\ room.game
  /\ Len(room.players) = MAX_PLAYERS
  /\ \E i \in C26_Matching("ANN") : Len(game.players[SeatOf(game, room.players[i])].hand) > 0
  /\ game.currentPlayerIndex # 0

\* two names of the alphabet that are equal ignoring case
C27_SameName(a, b) == a = b \/ {a, b} = {"ann", "ANN"}

\* the reasons a join is refused for, each with the condition it reports
C27_Reason(message, code, rawName) ==
  \/ message = "Room code and name are required" /\ (trim(rawName) = "" \/ trim(code) = "")
  \/ message = "Room not found" /\ (~room.registered \/ code # "room01")
  \/ message = "Game already in progress" /\ room.status = "in-progress"
  \/ message = "Room is full" /\ Len(room.players) >= MaxPlayers
  \/ message = "Display name already in use in this room"
       /\ \E i \in 1..Len(room.players) : C27_SameName(room.names[i], trim(rawName))

C27_Join(code, rawName) ==
  LET r == joinRoom(room, game, code, rawName)
      admissible ==
        /\ room.registered /\ code = "room01"
        /\ room.status = "waiting"
        /\ Len(room.players) < MaxPlayers
        /\ \A i \in 1..Len(room.players) : ~C27_SameName(room.names[i], trim(rawName))
  IN /\ r.success =>
          /\ admissible
          /\ r.rm.players = Append(room.players, PlayerIdOfSeat[room.created + 1])
          /\ PlayerIdOfSeat[room.created + 1] \notin Range(room.players)
          /\ r.rm.names = Append(room.names, trim(rawName))
          /\ r.rm.connected = Append(room.connected, TRUE)
          /\ r.rm.hostId = room.hostId /\ r.rm.status = room.status
          /\ r.rm.game = room.game
     /\ ~admissible => ~r.success
     /\ ~r.success => r.rm = room /\ C27_Reason(r.message, code, rawName)

C28_Start(caller, rnd) ==
  LET s == startGame(room, game, caller, rnd, steps + 1)
      seats == 1..Len(room.players)
  IN /\ (caller # room.hostId \/ Len(room.players) < 2) =>
          /\ s.refused /\ s.error # "" /\ s.errorTo = {caller}
          /\ s.rm = room /\ s.g = game /\ s.sent = <<>>
     /\ (caller = room.hostId /\ Len(room.players) \in 2..MaxPlayers) =>
          /\ ~s.refused /\ s.thrown = "" /\ s.errorTo = {}
          /\ s.rm.status = "in-progress" /\ s.rm.game
          /\ s.rm.players = room.players
          /\ s.g.hasStarted
          /\ [i \in 1..Len(s.g.players) |-> s.g.players[i].id] = room.players
          /\ DOMAIN s.sent = {i \in seats : room.connected[i]}
          /\ \A i \in DOMAIN s.sent :
               /\ s.sent[i].event = "gameStarted"
               /\ s.sent[i].cards = s.g.players[i].hand
               /\ Len(s.sent[i].cards) = InitialHandSize
               /\ s.sent[i].players = room.players
          /\ s.timer = steps + 1

\* C28: start_game from a socket that is not the host's, or in a room of fewer than
\* 2 players, is refused with an error to that socket alone and changes neither the
\* room nor the engine; from the host with 2 to MAX_PLAYERS players it succeeds: the
\* room is in progress with an engine over the room's players in seat order, every
\* connected player is sent game_started with their own hand of InitialHandSize
\* cards, and a turn timer is set.
C28_StartGating ==
  room.registered => \A caller \in Connections, rnd \in Rnd : C28_Start(caller, rnd)

C28_Witness ==
  /\ room.status = "in-progress" /\ room.game /\ game.hasStarted
  /\ steps = 1 /\ turnTimer = 1
  /\ Len(room.players) = MaxPlayers
  /\ room.hostId # room.players[1]
  /\ \E i \in 1..Len(room.players) : ~room.connected[i]
  /\ \E i \in 1..Len(room.players) : room.connected[i] /\ room.players[i] # room.hostId

\* C29: while a room is in progress the engine's turn order lists exactly the players
\* of the room, in seat order: a player who leaves is taken out of both, the cursor
\* designates a player who is still in the room, and when one player remains that
\* player is the winner and the room is cleaned up.
C29_LeavingDuringGame ==
  (room.registered /\ room.status = "in-progress" /\ room.game) =>
    /\ [i \in 1..Len(game.players) |-> game.players[i].id] = room.players
    /\ getCurrentPlayer(game).id \in Range(room.players)
    /\ Len(room.players) = 1 => game.winnerId = room.players[1]

\* the seats of a room whose players are connected
C30_Connected(rm) == {i \in 1..Len(rm.players) : rm.connected[i]}

C30_HostInRoom == room.registered => room.hostId \in Range(room.players)

C30_AfterDisconnect ==
  \A playerId \in Connections :
    (playerId = room.hostId /\ room.status = "waiting") =>
      LET d == disconnect(room, playerId)
      IN C30_Connected(d) # {} => d.hostId = d.players[FirstSeat(C30_Connected(d))]

C30_AfterLeave ==
  \A playerId \in Connections :
    playerId = room.hostId =>
      LET l == leaveRoomOf(room, turnTimer, playerId).rm
      IN C30_Connected(l) # {} => l.hostId = l.players[FirstSeat(C30_Connected(l))]

\* C30: when the host leaves the room, or disconnects while the room is waiting, the
\* first player in seat order who is still connected becomes the host; the host is
\* always a player of the room.
C30_HostSuccession == C30_HostInRoom /\ C30_AfterDisconnect /\ C30_AfterLeave

\* C31: a room is registered only while one of its players is connected; once the
\* last connected player has left or disconnected the room is gone from the registry
\* and has no turn timer, so no room without a connected player runs turn timeouts.
C31_RoomLifecycle ==
  /\ room.registered => Connections # {}
  /\ Connections = {} => turnTimer = NoTimer

\* the place of an event in the order C32 states
C32_Rank(event) ==
  CASE event = "handUpdate" -> 1
    [] event = "powerStateUpdate" -> 2
    [] event = "rushAlert" -> 3
    [] event = "stateUpdate" -> 4
    [] event = "gameEnded" -> 5

C32_InOrder(emits) ==
  \A i, j \in 1..Len(emits) : i < j => C32_Rank(emits[i].event) <= C32_Rank(emits[j].event)

\* C32: the events of every successful play_card, draw_card, draw_power_card,
\* play_power_card and timer-driven operation come in the order hand updates, power
\* state update, rush alerts, public state, game end.
C32_EmissionOrder ==
  Started =>
    /\ \A cardId \in AnyCard, chosenColor \in ChosenColors, rnd \in Rnd :
         LET r == playCard(game, Actor.id, cardId, chosenColor, rnd)
         IN r.error = "" => C32_InOrder(playCardEmits(room, r, Actor.id))
    /\ \A rnd \in Rnd :
         /\ LET r == draw(game, Actor.id, rnd)
            IN r.error = "" => C32_InOrder(drawEmits(room, r, Actor.id))
         /\ LET r == drawPowerCard(game, Actor.id, rnd)
            IN r.error = "" => C32_InOrder(drawPowerEmits(room, r, Actor.id))
         /\ turnTimer # NoTimer =>
              LET r == timeoutCall(game, rnd)
              IN r.error = "" => C32_InOrder(timeoutEmits(room, r, Actor))
    /\ \A payload \in Payloads, rnd \in Rnd :
         LET r == playPowerCard(game, Actor.id, payload, rnd)
         IN r.error = "" => C32_InOrder(playPowerEmits(room, r, Actor.id))

\* the events of an operation that left the engine as g2 alert the room about the
\* players whose hand came to one card, and about no other player
C33_Rule(emits, g2) ==
  /\ \A seat \in 1..Len(game.players) :
       (\E k \in 1..Len(emits) :
          emits[k].event = "rushAlert" /\ emits[k].about = game.players[seat].id)
       <=> (Len(g2.players[seat].hand) = 1 /\ Len(game.players[seat].hand) # 1)
  /\ \A k \in 1..Len(emits) : emits[k].event = "rushAlert" => emits[k].to = "room"

\* C33: an operation emits rush_alert for a player, to the whole room, exactly when
\* that player's hand has one card after it and had not before: for plays, draws,
\* timer draws, penalty draws and the power cards; a hand that stays at one card
\* raises no alert.
C33_RushAlert ==
  Started =>
    /\ \A cardId \in AnyCard, chosenColor \in ChosenColors, rnd \in Rnd :
         LET r == playCard(game, Actor.id, cardId, chosenColor, rnd)
         IN r.error = "" => C33_Rule(playCardEmits(room, r, Actor.id), r.g)
    /\ \A rnd \in Rnd :
         /\ LET r == draw(game, Actor.id, rnd)
            IN r.error = "" => C33_Rule(drawEmits(room, r, Actor.id), r.g)
         /\ LET r == drawPowerCard(game, Actor.id, rnd)
            IN r.error = "" => C33_Rule(drawPowerEmits(room, r, Actor.id), r.g)
         /\ turnTimer # NoTimer =>
              LET r == timeoutCall(game, rnd)
              IN r.error = "" => C33_Rule(timeoutEmits(room, r, Actor), r.g)
    /\ \A payload \in Payloads, rnd \in Rnd :
         LET r == playPowerCard(game, Actor.id, payload, rnd)
         IN r.error = "" => C33_Rule(playPowerEmits(room, r, Actor.id), r.g)

\* a card that tells nothing
C34_Blank == [id |-> NoCard]

C34_Blanks(cards) == [k \in 1..Len(cards) |-> C34_Blank]

\* the engine with everything hidden that two engines which agree on the public
\* counts may differ in: the cards of the hands and inventories, the piles below the
\* top of the discard pile
C34_Scrubbed(g) ==
  [g EXCEPT !.players = [i \in 1..Len(g.players) |->
                           [@[i] EXCEPT !.hand = C34_Blanks(@),
                                        !.powerCards = C34_Blanks(@)]],
            !.deck = <<>>, !.powerDeck = <<>>,
            !.discardPile = <<getTopCard(g)>>]

C34_ScrubbedRoom(rm) ==
  [rm EXCEPT !.cache = [i \in 1..Len(rm.players) |->
                          [hand |-> C34_Blanks(@[i].hand),
                           powerCards |-> C34_Blanks(@[i].powerCards)]]]

\* every event that carries cards goes to the socket of the player they belong to and
\* carries that player's cards in the engine g2
C34_Addressed(emits, g2) ==
  \A k \in 1..Len(emits) :
    emits[k].event \in {"handUpdate", "powerStateUpdate"} =>
      /\ emits[k].to = emits[k].about
      /\ emits[k].to \in Connections
      /\ emits[k].cards =
           IF emits[k].event = "handUpdate"
           THEN g2.players[SeatOf(g2, emits[k].to)].hand
           ELSE g2.players[SeatOf(g2, emits[k].to)].powerCards

\* C34: the public state and the lobby payload are those of the engine and the room
\* with every hand, inventory and pile hidden but for the sizes, so two states that
\* agree on the counts, points, frozen counters, cursor, direction, discard top,
\* colour and draw stack are broadcast alike; and every hand update and power state
\* update goes only to the socket of the player whose cards it carries.
C34_HiddenInformation ==
  Started =>
    /\ getPublicState(game, room.hostId) = getPublicState(C34_Scrubbed(game), room.hostId)
    /\ lobbyState(room) = lobbyState(C34_ScrubbedRoom(room))
    /\ \A cardId \in AnyCard, chosenColor \in ChosenColors, rnd \in Rnd :
         LET r == playCard(game, Actor.id, cardId, chosenColor, rnd)
         IN r.error = "" => C34_Addressed(playCardEmits(room, r, Actor.id), r.g)
    /\ \A rnd \in Rnd :
         /\ LET r == draw(game, Actor.id, rnd)
            IN r.error = "" => C34_Addressed(drawEmits(room, r, Actor.id), r.g)
         /\ LET r == drawPowerCard(game, Actor.id, rnd)
            IN r.error = "" => C34_Addressed(drawPowerEmits(room, r, Actor.id), r.g)
         /\ LET r == timeoutCall(game, rnd)
            IN r.error = "" => C34_Addressed(timeoutEmits(room, r, Actor), r.g)
    /\ \A payload \in Payloads, rnd \in Rnd :
         LET r == playPowerCard(game, Actor.id, payload, rnd)
         IN r.error = "" => C34_Addressed(playPowerEmits(room, r, Actor.id), r.g)

C34_Witness ==
  /\ Started /\ game.winnerId = Null
  /\ C34_Scrubbed(game).players # game.players
  /\ Len(game.deck) > 0 /\ Len(game.discardPile) > 1
  /\ \E i \in 1..Len(game.players) : Len(game.players[i].powerCards) > 0
  /\ \E i \in 1..Len(room.players) : Len(room.cache[i].powerCards) > 0

\* the expiry of the turn timer, and the states in which it can take a step: a timer is
\* pending, and its callback clears it, or the call it makes changes the engine, or the
\* rescheduling after a failed call changes the timer
TimerExpires == \E rnd \in Rnd : handleTurnTimeout(rnd)

TimerPending ==
  /\ turnTimer # NoTimer
  /\ steps < MaxSteps
  /\ \/ ~room.registered \/ room.status # "in-progress" \/ ~room.game
     \/ \E rnd \in Rnd :
          LET r == timeoutCall(game, rnd)
          IN r.error = "" \/ r.g # game \/ scheduleTurnTimer(room, steps) # turnTimer

\* the timer fires: weak fairness of the expiry, WF_vars(TimerExpires), written with
\* the states in which the expiry is enabled
TimerSpec == Spec /\ ([]<>~TimerPending \/ []<><<TimerExpires>>_vars)

C35_Running ==
  room.registered /\ room.status = "in-progress" /\ room.game /\ game.winnerId = Null

\* the call made at expiry succeeds and ends the turn: a forced power draw clears the
\* pending draw, a draw moves the cursor or lets a frozen player forfeit a turn
C35_Expiry ==
  C35_Running =>
    /\ turnTimer # NoTimer
    /\ \A rnd \in Rnd :
         LET r == timeoutCall(game, rnd)
         IN /\ r.error = ""
            /\ r.g.pendingPowerDrawPlayerId = Null
            /\ ~r.g.players[Cur(game)].isAwaitingPowerDraw
            /\ ~Actor.isAwaitingPowerDraw =>
                 \/ Cur(r.g) # Cur(game)
                 \/ \E i \in 1..Len(game.players) :
                      r.g.players[i].frozenForTurns < game.players[i].frozenForTurns

C36_StartOnlyWhenWaiting ==
  (room.status = "in-progress" /\ room.game) =>
    \A caller \in Callers, rnd \in Rnd :
      LET s == startGame(room, game, caller, rnd, steps + 1)
      IN s.refused \/ (s.g = game /\ s.rm = room)

\* C37: a connection is bound to at most one seat: after a join_room of a connection
\* that holds a seat, the seat it held is no longer marked connected unless it is the
\* seat the connection's data names.
C37_OneSeatPerConnection ==
  \A playerId \in Connections, code \in JoinCodes, rawName \in JoinNames :
    LET joined == joinRoom(room, game, code, rawName)
        bound == joinedPlayerId(room, game, playerId, code, rawName)
    IN (joined.success /\ bound # playerId) =>
         ~joined.rm.connected[RoomSeatOf(joined.rm, playerId)]

\* C38: a waiting room can be started by someone present: whenever the room is waiting
\* and one of its players is connected, the host is a connected player.
C38_HostPresent ==
  (room.registered /\ room.status = "waiting" /\ Connections # {}) =>
    room.hostId \in Connections

\* the frozen entries a call passed over: each costs the player it lands on one turn
RECURSIVE C39_Skipped(_, _)
C39_Skipped(g2, seat) ==
  IF seat > Len(game.players) THEN 0
  ELSE (IF g2.players[seat].frozenForTurns < game.players[seat].frozenForTurns
        THEN game.players[seat].frozenForTurns - g2.players[seat].frozenForTurns ELSE 0)
       + C39_Skipped(g2, seat + 1)

C39_Resolved(r) ==
  /\ r.error # "Unable to resolve frozen player turns"
  /\ r.error = "" =>
       /\ r.g.players[Cur(r.g)].frozenForTurns = 0
       /\ C39_Skipped(r.g, 1) < Len(game.players)
       /\ \A seat \in 1..Len(game.players) :
            r.g.players[seat].frozenForTurns >= game.players[seat].frozenForTurns - 1

C40_Meter(g) ==
  \A seat \in 1..Len(g.players) :
    /\ g.players[seat].powerPoints <= 6
    /\ ~g.players[seat].isAwaitingPowerDraw => g.players[seat].powerPoints <= 3
    /\ getRequiredPowerDraws(g.players[seat]) \in {0, 1}

C40_OneDrawClears ==
  \A rnd \in Rnd :
    LET r == drawPowerCard(game, Actor.id, rnd)
    IN r.error = "" =>
         /\ r.g.pendingPowerDrawPlayerId = Null
         /\ ~r.g.players[Cur(game)].isAwaitingPowerDraw
         /\ getRequiredPowerDraws(r.g.players[Cur(game)]) = 0

\* C40: a player's powerPoints are at most 6, and at most 3 when the player owes no
\* forced draw; so a player owes 0 or 1 power draws, and one drawPowerCard clears the
\* pending draw and ends the turn: the player never still owes a draw after drawing.
C40_PowerPointsBounded == Started => (C40_Meter(game) /\ C40_OneDrawClears)

\* C40 happens: a player who had 3 points has played a wild4 and owes one draw for
\* 6 points, which the draw brings down to 2
C40_Witness ==
  /\ Started /\ game.winnerId = Null
  /\ Actor.isAwaitingPowerDraw /\ Actor.powerPoints = 6
  /\ \E rnd \in Rnd : drawPowerCard(game, Actor.id, rnd).error = ""

====
